---------------------------- MODULE Spec2Model ----------------------------
(***************************************************************************)
(* The canvas state and event-log engine of MCPlace (lib/canvas.ts, kept   *)
(* in src/README.md lines 120-451) with its callers: the MCP tool handlers *)
(* (src/app/mcp/route.ts), the HTTP routes and the scripts.                *)
(*                                                                         *)
(* Representation of JavaScript values:                                    *)
(*  - a string is the sequence of its characters, each a 1-character       *)
(*    string: "#FFF" is <<"#","F","F","F">>;                               *)
(*  - a value whose typeof is inspected (the color argument) is a record   *)
(*    [type, chars];                                                       *)
(*  - a coordinate or dimension ARGUMENT is a JavaScript number carried as *)
(*    twice its value, so that 0.5 is representable: 2 is the number 1,    *)
(*    1 is the number 0.5.  Stored widths and heights are plain integers;  *)
(*  - a Uint8Array is [length, nz]: its length and the finite map from     *)
(*    0-based index to byte of its non-zero elements (typed arrays are     *)
(*    zero-filled at creation);                                            *)
(*  - a base64 text is [length, pad, nz]: its length in characters, the    *)
(*    number of trailing "=" and the map from 0-based position to the      *)
(*    6-bit value of every character that is not "A" (value 0).            *)
(*  - timestampMs is not carried: nothing below reads it.                  *)
(***************************************************************************)
EXTENDS Integers, Sequences, FiniteSets, TLC

(***************************************************************************)
(* Strings                                                                 *)
(***************************************************************************)
UpperChars == <<"A","B","C","D","E","F","G","H","I","J","K","L","M",
                "N","O","P","Q","R","S","T","U","V","W","X","Y","Z">>

LowerChars == <<"a","b","c","d","e","f","g","h","i","j","k","l","m",
                "n","o","p","q","r","s","t","u","v","w","x","y","z">>

HexChars == {"0","1","2","3","4","5","6","7","8","9","a","b","c","d","e","f"}

WhiteSpace == {" ", "\t", "\n"}

\* the lower-case letter of every upper-case letter
LowerOf ==
    [c \in {UpperChars[i] : i \in DOMAIN UpperChars} |->
        LowerChars[CHOOSE i \in DOMAIN UpperChars : UpperChars[i] = c]]

\* String.prototype.toLowerCase, one character
LowerChar(c) == IF c \in DOMAIN LowerOf THEN LowerOf[c] ELSE c

\* String.prototype.toLowerCase
toLowerCase(s) == [i \in DOMAIN s |-> LowerChar(s[i])]

Min(S) == CHOOSE i \in S : \A j \in S : i <= j
Max(S) == CHOOSE i \in S : \A j \in S : j <= i

\* the part of s between its first and its last position in `keep`
Between(s, keep) == IF keep = {} THEN <<>> ELSE SubSeq(s, Min(keep), Max(keep))

\* String.prototype.trim: white space removed at both ends
trim(s) == Between(s, {i \in DOMAIN s : s[i] \notin WhiteSpace})

\* a JavaScript string value, and a value that is not a string
JSString(s) == [type |-> "string", chars |-> s]
JSUndefined == [type |-> "undefined", chars |-> <<>>]

(***************************************************************************)
(* Numbers given as arguments (twice their value)                          *)
(***************************************************************************)
Num(k) == 2 * k
Half(k) == 2 * k + 1            \* the number k + 0.5
IsInteger(v) == v % 2 = 0       \* Number.isInteger
IntOf(v) == v \div 2            \* the integer an integral number denotes

(***************************************************************************)
(* Palette and default canvas                                              *)
(***************************************************************************)
DEFAULT_PALETTE == <<
    <<"#","F","F","F","F","F","F">>,
    <<"#","E","4","E","4","E","4">>,
    <<"#","8","8","8","8","8","8">>,
    <<"#","2","2","2","2","2","2">>,
    <<"#","F","F","A","7","D","1">>,
    <<"#","E","5","0","0","0","0">>,
    <<"#","E","5","9","5","0","0">>,
    <<"#","A","0","6","A","4","2">>,
    <<"#","E","5","D","9","0","0">>,
    <<"#","9","4","E","0","4","4">>,
    <<"#","0","2","B","E","0","1">>,
    <<"#","0","0","D","3","D","D">>,
    <<"#","0","0","8","3","C","7">>,
    <<"#","0","0","0","0","E","A">>,
    <<"#","C","F","6","E","E","4">>,
    <<"#","8","2","0","0","8","0">> >>

DefaultWidth == 64
DefaultHeight == 64
MaxPalette == 256      \* palette.length >= 256 is "full"
ByteRange == 256       \* a Uint8Array element holds its value modulo 2^8

(***************************************************************************)
(* Uint8Array and base64                                                   *)
(***************************************************************************)
EmptyMap == [i \in {} |-> 0]

\* element i (0-based) of a typed array, or the 6-bit value at position i
At(a, i) == IF i \in DOMAIN a.nz THEN a.nz[i] ELSE 0

\* the map m without its zero entries
NonZero(m) == [k \in {t \in DOMAIN m : m[t] # 0} |-> m[k]]

\* pixels[i] = v on a Uint8Array: v is stored modulo 2^8; an index that is
\* not an integer in [0, length) is ignored
SetByte(a, i2, v) ==
    IF ~IsInteger(i2) \/ IntOf(i2) < 0 \/ IntOf(i2) >= a.length THEN a
    ELSE [a EXCEPT !.nz = NonZero([j \in DOMAIN a.nz \cup {IntOf(i2)} |->
                                     IF j = IntOf(i2) THEN v % ByteRange ELSE a.nz[j]])]

\* base64 character k (0-based) of the bytes: its 6-bit value
Sextet(pixels, g, j) ==
    CASE j = 0 -> At(pixels, g) \div 4
      [] j = 1 -> (At(pixels, g) % 4) * 16 + At(pixels, g + 1) \div 16
      [] j = 2 -> (At(pixels, g + 1) % 16) * 4 + At(pixels, g + 2) \div 64
      [] OTHER -> At(pixels, g + 2) % 64

\* Buffer.from(pixels).toString("base64"); only the characters that a
\* non-zero byte reaches can differ from "A"
encodePixelsToBase64(pixels) ==
    [length |-> 4 * ((pixels.length + 2) \div 3),
     pad    |-> (3 - (pixels.length % 3)) % 3,
     nz     |-> NonZero([k \in UNION {{4 * (i \div 3) + (i % 3), 4 * (i \div 3) + (i % 3) + 1} :
                                      i \in DOMAIN pixels.nz}
                           |-> Sextet(pixels, 3 * (k \div 4), k % 4)])]

\* byte i (0-based) of the decoded text
Octet(text, g, j) ==
    CASE j = 0 -> (At(text, g) * 4 + At(text, g + 1) \div 16) % ByteRange
      [] j = 1 -> ((At(text, g + 1) % 16) * 16 + At(text, g + 2) \div 4) % ByteRange
      [] OTHER -> ((At(text, g + 2) % 4) * 64 + At(text, g + 3)) % ByteRange

\* the n bytes of a base64 text; only the bytes that a non-"A" character
\* reaches can be non-zero
BytesOf(text, n) ==
    [length |-> n,
     nz     |-> NonZero([i \in {t \in UNION {{3 * (k \div 4) + (k % 4) - 1, 3 * (k \div 4) + (k % 4)} :
                                             k \in DOMAIN text.nz} : t >= 0 /\ t < n}
                           |-> Octet(text, 4 * (i \div 3), i % 3)])]

\* a variant that counts the "=" characters as data
Base64BytesUnpadded(text) == BytesOf(text, (text.length * 6) \div 8)

\* Buffer.from(base64, "base64"): 6 bits per character that is not "="
Base64Bytes(text) == BytesOf(text, ((text.length - text.pad) * 6) \div 8)

ErrLength == "Decoded pixels length does not match expected"

LengthChecked(decoded, expectedLength) ==
    IF decoded.length # expectedLength
    THEN [ok |-> FALSE, error |-> ErrLength, pixels |-> decoded]
    ELSE [ok |-> TRUE, error |-> "", pixels |-> decoded]

\* decodePixelsFromBase64: the bytes, or the length-mismatch error
decodePixelsFromBase64(base64, expectedLength) ==
    LengthChecked(Base64Bytes(base64), expectedLength)

\* new Uint8Array(total) is zero-filled; arr.fill(fillIndex)
createEmptyPixels(width, height, fillIndex) ==
    [length |-> width * height,
     nz     |-> IF fillIndex % ByteRange = 0 THEN EmptyMap
                ELSE [i \in 0..(width * height - 1) |-> fillIndex % ByteRange]]

\* the result is carried as twice the index, like every computed number that
\* may fail to be an integer
indexFor(x, y, width) == y * width + x

(***************************************************************************)
(* Colors                                                                  *)
(***************************************************************************)
\* trimmed.match(/^#([0-9a-f]{3})$/i) and the expansion #rgb -> #rrggbb
ExpandShortHex(trimmed) ==
    IF /\ Len(trimmed) = 4
       /\ trimmed[1] = "#"
       /\ \A i \in 2..4 : trimmed[i] \in HexChars
    THEN <<"#", trimmed[2], trimmed[2], trimmed[3], trimmed[3], trimmed[4], trimmed[4]>>
    ELSE trimmed

normalizeColorString(input) == ExpandShortHex(toLowerCase(trim(input)))

\* the first position (0-based) of a set of 1-based positions, -1 if none
FirstOf(hits) == IF hits = {} THEN -1 ELSE Min(hits) - 1

\* a variant that looks the normalized colour up among the entries as they are stored
findIndexStored(palette, normalized) ==
    FirstOf({i \in DOMAIN palette : palette[i] = normalized})

\* palette.findIndex(c => normalizeColorString(c) === normalized)
findIndex(palette, normalized) ==
    FirstOf({i \in DOMAIN palette : normalizeColorString(palette[i]) = normalized})

\* a variant that keeps the palette sorted by recency: a new colour goes first
EnsureAtFront(palette, normalized, existingIndex) ==
    IF existingIndex # -1
    THEN [ok |-> TRUE, updatedPalette |-> palette, colorIndex |-> existingIndex]
    ELSE IF Len(palette) >= MaxPalette
    THEN [ok |-> FALSE, updatedPalette |-> palette, colorIndex |-> -1]
    ELSE [ok |-> TRUE, updatedPalette |-> <<normalized>> \o palette, colorIndex |-> 0]

\* a variant that drops the entries after a colour it finds again
EnsureAtTruncating(palette, normalized, existingIndex) ==
    IF existingIndex # -1
    THEN [ok |-> TRUE, updatedPalette |-> SubSeq(palette, 1, existingIndex + 1),
          colorIndex |-> existingIndex]
    ELSE IF Len(palette) >= MaxPalette
    THEN [ok |-> FALSE, updatedPalette |-> palette, colorIndex |-> -1]
    ELSE [ok |-> TRUE, updatedPalette |-> Append(palette, normalized),
          colorIndex |-> Len(palette)]

\* a variant whose ceiling test is off by one
EnsureAtOverCeiling(palette, normalized, existingIndex) ==
    IF existingIndex # -1
    THEN [ok |-> TRUE, updatedPalette |-> palette, colorIndex |-> existingIndex]
    ELSE IF Len(palette) > MaxPalette
    THEN [ok |-> FALSE, updatedPalette |-> palette, colorIndex |-> -1]
    ELSE [ok |-> TRUE, updatedPalette |-> Append(palette, normalized),
          colorIndex |-> Len(palette)]

\* a variant that also rewrites the entries it found in their normalized form
EnsureAtNormalizingAll(palette, normalized, existingIndex) ==
    IF existingIndex # -1
    THEN [ok |-> TRUE, updatedPalette |-> palette, colorIndex |-> existingIndex]
    ELSE IF Len(palette) >= MaxPalette
    THEN [ok |-> FALSE, updatedPalette |-> palette, colorIndex |-> -1]
    ELSE [ok |-> TRUE,
          updatedPalette |-> Append([i \in DOMAIN palette |-> normalizeColorString(palette[i])],
                                    normalized),
          colorIndex |-> Len(palette)]

\* ensureColorInPalette once normalized and existingIndex are known
EnsureAt(palette, normalized, existingIndex) ==
    IF existingIndex # -1
    THEN [ok |-> TRUE, updatedPalette |-> palette, colorIndex |-> existingIndex]
    ELSE IF Len(palette) >= MaxPalette
    THEN [ok |-> FALSE, updatedPalette |-> palette, colorIndex |-> -1]
    ELSE [ok |-> TRUE, updatedPalette |-> Append(palette, normalized),
          colorIndex |-> Len(palette)]

EnsureNormalized(palette, normalized) ==
    EnsureAt(palette, normalized, findIndex(palette, normalized))

ensureColorInPalette(palette, color) ==
    EnsureNormalized(palette, normalizeColorString(color))

(***************************************************************************)
(* Values: optional arguments, canvas states, events                       *)
(***************************************************************************)
Undefined == <<>>            \* an omitted optional argument, an absent key
Some(v) == <<v>>
IsDefined(o) == o # <<>>
Get(o) == o[1]

CanvasState(width, height, palette, pixelsBase64) ==
    [meta |-> [width |-> width, height |-> height, palette |-> palette],
     pixelsBase64 |-> pixelsBase64]

\* the state getCanvas stores when the key is absent
InitialState ==
    CanvasState(DefaultWidth, DefaultHeight, DEFAULT_PALETTE,
                encodePixelsToBase64(createEmptyPixels(DefaultWidth, DefaultHeight, 0)))

NoArgs == [x |-> 0, y |-> 0, color |-> JSUndefined, updates |-> <<>>,
           source |-> Undefined, width |-> Undefined, height |-> Undefined,
           palette |-> Undefined, limit |-> Undefined]

PixelSetEvent(x, y, color, colorIndex, source) ==
    [type |-> "pixel_set", x |-> x, y |-> y, color |-> color,
     colorIndex |-> colorIndex, source |-> source,
     toolName |-> "", argsJson |-> NoArgs]

\* argsJson is the JSON text of the arguments, carried as the arguments
ToolUsedEvent(toolName, args) ==
    [type |-> "tool_used", x |-> 0, y |-> 0, color |-> <<>>,
     colorIndex |-> 0, source |-> "",
     toolName |-> toolName, argsJson |-> args]

\* JSON.stringify(event): one layer of JSON text around the event
Stringify(event) == [enc |-> 1, val |-> event]

(***************************************************************************)
(* The synchronous bodies of the operations, between two backend calls     *)
(***************************************************************************)
Failure(msg) == [ok |-> FALSE, error |-> msg, updated |-> Undefined, events |-> <<>>]
Success(updated, events) == [ok |-> TRUE, error |-> "", updated |-> Some(updated), events |-> events]

ErrOutOfBounds == "Pixel coordinates out of bounds"
ErrColor == "Color must be a non-empty string"
ErrPaletteFull == "Palette is full (max 256 colors due to Uint8Array storage)"
ErrEmptyBatch == "'updates' must be a non-empty array"
ErrDimensions == "Width and height must be positive integers"

SourceOr(source) == IF IsDefined(source) THEN Get(source) ELSE "system"

\* a variant whose event carries the colour in normalized form
SetPixelDecodedNormalizing(params, current, ensured, decoded) ==
    IF ~decoded.ok THEN Failure(ErrLength)
    ELSE Success([meta |-> [current.meta EXCEPT !.palette = ensured.updatedPalette],
                  pixelsBase64 |->
                      encodePixelsToBase64(
                          SetByte(decoded.pixels,
                                  indexFor(params.x, params.y, current.meta.width),
                                  ensured.colorIndex))],
                 <<PixelSetEvent(params.x, params.y,
                                 normalizeColorString(
                                     ensured.updatedPalette[ensured.colorIndex + 1]),
                                 ensured.colorIndex, SourceOr(params.source))>>)

\* setPixel from its decodePixelsFromBase64 to its redis.set
SetPixelDecoded(params, current, ensured, decoded) ==
    IF ~decoded.ok THEN Failure(ErrLength)
    ELSE Success([meta |-> [current.meta EXCEPT !.palette = ensured.updatedPalette],
                  pixelsBase64 |->
                      encodePixelsToBase64(
                          SetByte(decoded.pixels,
                                  indexFor(params.x, params.y, current.meta.width),
                                  ensured.colorIndex))],
                 <<PixelSetEvent(params.x, params.y,
                                 ensured.updatedPalette[ensured.colorIndex + 1],
                                 ensured.colorIndex, SourceOr(params.source))>>)

\* setPixel from its ensureColorInPalette on
SetPixelEnsured(params, current, ensured) ==
    IF ~ensured.ok THEN Failure(ErrPaletteFull)
    ELSE SetPixelDecoded(params, current, ensured,
                         decodePixelsFromBase64(current.pixelsBase64,
                                                current.meta.width * current.meta.height))

\* a variant whose upper bounds are off by one
setPixelBodyInclusive(params, current) ==
    IF \/ params.x < 0 \/ params.y < 0
       \/ params.x > Num(current.meta.width) \/ params.y > Num(current.meta.height)
    THEN Failure(ErrOutOfBounds)
    ELSE IF params.color.type # "string" \/ Len(trim(params.color.chars)) = 0
    THEN Failure(ErrColor)
    ELSE SetPixelEnsured(params, current,
                         ensureColorInPalette(current.meta.palette, params.color.chars))

\* setPixel from the return of getCanvas to the redis.set
setPixelBody(params, current) ==
    IF \/ params.x < 0 \/ params.y < 0
       \/ params.x >= Num(current.meta.width) \/ params.y >= Num(current.meta.height)
    THEN Failure(ErrOutOfBounds)
    ELSE IF params.color.type # "string" \/ Len(trim(params.color.chars)) = 0
    THEN Failure(ErrColor)
    ELSE SetPixelEnsured(params, current,
                         ensureColorInPalette(current.meta.palette, params.color.chars))

Applied(ok, error, palette, pixels) ==
    [ok |-> ok, error |-> error, palette |-> palette, pixels |-> pixels]

\* the loop of setPixels over updates[k..]: validation and application interleaved
RECURSIVE ApplyUpdates(_, _, _, _, _, _)
ApplyEnsured(updates, k, width, height, palette, pixels, ensured) ==
    IF ~ensured.ok THEN Applied(FALSE, ErrPaletteFull, palette, pixels)
    ELSE ApplyUpdates(updates, k + 1, width, height, ensured.updatedPalette,
                      SetByte(pixels, indexFor(updates[k].x, updates[k].y, width),
                              ensured.colorIndex))

ApplyUpdates(updates, k, width, height, palette, pixels) ==
    IF k > Len(updates) THEN Applied(TRUE, "", palette, pixels)
    ELSE IF \/ ~IsInteger(updates[k].x) \/ ~IsInteger(updates[k].y)
            \/ updates[k].x < 0 \/ updates[k].y < 0
            \/ updates[k].x >= Num(width) \/ updates[k].y >= Num(height)
    THEN Applied(FALSE, ErrOutOfBounds, palette, pixels)
    ELSE IF updates[k].color.type # "string" \/ Len(trim(updates[k].color.chars)) = 0
    THEN Applied(FALSE, ErrColor, palette, pixels)
    ELSE ApplyEnsured(updates, k, width, height, palette, pixels,
                      ensureColorInPalette(palette, updates[k].color.chars))

\* the event of one update, its index looked up in the final palette
\* a variant that reports the newest palette entry for every update
BatchEventNewest(update, palette, colorIndex, source) ==
    PixelSetEvent(update.x, update.y, palette[Len(palette)], Len(palette) - 1, SourceOr(source))

BatchEvent(update, palette, colorIndex, source) ==
    PixelSetEvent(update.x, update.y, palette[colorIndex + 1], colorIndex, SourceOr(source))

\* a variant that builds the events from the last update to the first
BatchEventsReversed(updates, palette, source) ==
    [k \in DOMAIN updates |->
        BatchEvent(updates[Len(updates) + 1 - k], palette,
                   ensureColorInPalette(palette, updates[Len(updates) + 1 - k].color.chars).colorIndex,
                   source)]

\* the events setPixels appends after its redis.set
BatchEvents(updates, palette, source) ==
    [k \in DOMAIN updates |->
        BatchEvent(updates[k], palette,
                   ensureColorInPalette(palette, updates[k].color.chars).colorIndex, source)]

\* a variant that stores what the loop had applied when it failed
SetPixelsAppliedPartly(params, current, applied) ==
    Success([meta |-> [current.meta EXCEPT !.palette = applied.palette],
             pixelsBase64 |-> encodePixelsToBase64(applied.pixels)],
            IF applied.ok
            THEN BatchEvents(params.updates, applied.palette, params.source)
            ELSE <<>>)

\* a variant that persists the grid as it is after the first update
SetPixelsAppliedFirst(params, current, applied) ==
    IF ~applied.ok THEN Failure(applied.error)
    ELSE Success([meta |-> [current.meta EXCEPT !.palette =
                               ApplyUpdates(SubSeq(params.updates, 1, 1), 1,
                                            current.meta.width, current.meta.height,
                                            current.meta.palette,
                                            Base64Bytes(current.pixelsBase64)).palette],
                  pixelsBase64 |->
                      encodePixelsToBase64(
                          ApplyUpdates(SubSeq(params.updates, 1, 1), 1,
                                       current.meta.width, current.meta.height,
                                       current.meta.palette,
                                       Base64Bytes(current.pixelsBase64)).pixels)],
                 BatchEvents(params.updates, applied.palette, params.source))

\* setPixels after its loop
SetPixelsApplied(params, current, applied) ==
    IF ~applied.ok THEN Failure(applied.error)
    ELSE Success([meta |-> [current.meta EXCEPT !.palette = applied.palette],
                  pixelsBase64 |-> encodePixelsToBase64(applied.pixels)],
                 BatchEvents(params.updates, applied.palette, params.source))

\* setPixels from its decodePixelsFromBase64 on
SetPixelsDecoded(params, current, decoded) ==
    IF ~decoded.ok THEN Failure(ErrLength)
    ELSE SetPixelsApplied(params, current,
                          ApplyUpdates(params.updates, 1, current.meta.width, current.meta.height,
                                       current.meta.palette, decoded.pixels))

\* setPixels from the return of getCanvas to the redis.set
setPixelsBody(params, current) ==
    SetPixelsDecoded(params, current,
                     decodePixelsFromBase64(current.pixelsBase64,
                                            current.meta.width * current.meta.height))

\* resetCanvas once width, height and palette are resolved
\* a variant that builds a square canvas of the resolved width
ResetResolvedSquare(width, height, palette) ==
    IF ~IsInteger(width) \/ ~IsInteger(height) \/ width <= 0 \/ height <= 0
    THEN Failure(ErrDimensions)
    ELSE Success(CanvasState(IntOf(width), IntOf(width), palette,
                             encodePixelsToBase64(createEmptyPixels(IntOf(width), IntOf(width), 0))),
                 <<>>)

\* a variant that lets a dimension of zero through
ResetResolvedNonNegative(width, height, palette) ==
    IF ~IsInteger(width) \/ ~IsInteger(height) \/ width < 0 \/ height < 0
    THEN Failure(ErrDimensions)
    ELSE Success(CanvasState(IntOf(width), IntOf(height), palette,
                             encodePixelsToBase64(createEmptyPixels(IntOf(width), IntOf(height), 0))),
                 <<>>)

ResetResolved(width, height, palette) ==
    IF ~IsInteger(width) \/ ~IsInteger(height) \/ width <= 0 \/ height <= 0
    THEN Failure(ErrDimensions)
    ELSE Success(CanvasState(IntOf(width), IntOf(height), palette,
                             encodePixelsToBase64(createEmptyPixels(IntOf(width), IntOf(height), 0))),
                 <<>>)

\* a variant that keeps the grid it read under the new dimensions
resetCanvasBodyKeepingGrid(params, existing) ==
    IF ~ResetResolved(
            IF IsDefined(params.width) THEN Get(params.width) ELSE Num(existing.meta.width),
            IF IsDefined(params.height) THEN Get(params.height) ELSE Num(existing.meta.height),
            existing.meta.palette).ok
    THEN Failure(ErrDimensions)
    ELSE Success(CanvasState(
                     IF IsDefined(params.width) THEN IntOf(Get(params.width))
                     ELSE existing.meta.width,
                     IF IsDefined(params.height) THEN IntOf(Get(params.height))
                     ELSE existing.meta.height,
                     IF IsDefined(params.palette) THEN Get(params.palette)
                     ELSE existing.meta.palette,
                     existing.pixelsBase64),
                 <<>>)

\* resetCanvas from the return of getCanvas to the redis.set
resetCanvasBody(params, existing) ==
    ResetResolved(
        IF IsDefined(params.width) THEN Get(params.width) ELSE Num(existing.meta.width),
        IF IsDefined(params.height) THEN Get(params.height) ELSE Num(existing.meta.height),
        IF IsDefined(params.palette) THEN Get(params.palette) ELSE existing.meta.palette)

\* what the caller of getCanvas does with the state it returns
BodyAfterGetCanvas(params, op, state) ==
    CASE op = "setPixel" -> setPixelBody(params, state)
      [] op = "setPixels" -> setPixelsBody(params, state)
      [] op = "resetCanvas" -> resetCanvasBody(params, state)
      [] OTHER -> [ok |-> TRUE, error |-> "", updated |-> Undefined, events |-> <<>>]

(***************************************************************************)
(* The event log as getCanvasEvents reads it                               *)
(***************************************************************************)
\* the callback of values.map: up to two JSON.parse, then the type test
\* the JSON.parse calls that succeed within the loop's two rounds
\* a variant whose loop makes one round
ParsedLayersOnce(raw) ==
    IF raw.val.type = "not json"
    THEN (IF raw.enc - 1 < 1 THEN raw.enc - 1 ELSE 1)
    ELSE (IF raw.enc < 1 THEN raw.enc ELSE 1)

ParsedLayers(raw) ==
    IF raw.val.type = "not json"
    THEN (IF raw.enc - 1 < 2 THEN raw.enc - 1 ELSE 2)
    ELSE (IF raw.enc < 2 THEN raw.enc ELSE 2)

ParseEntry(raw) ==
    IF raw.enc - ParsedLayers(raw) > 0 THEN Undefined       \* still a string
    ELSE IF raw.val.type = "pixel_set" \/ raw.val.type = "tool_used" THEN Some(raw.val)
    ELSE Undefined

\* values.map(...).filter(Boolean)
RECURSIVE ParseAll(_)
ParseAll(values) ==
    IF values = <<>> THEN <<>>
    ELSE ParseEntry(Head(values)) \o ParseAll(Tail(values))

\* Redis LRANGE key start stop on a list (0-based, inclusive, negative from the end)
\* a Redis index: negative counts from the end
FromEnd(n, i) == IF i < 0 THEN n + i ELSE i

\* LRANGE on normalised indices
Range(list, s, e) ==
    IF s > e \/ s >= Len(list) THEN <<>> ELSE SubSeq(list, s + 1, e + 1)

\* Redis LRANGE key start stop on a list (0-based, inclusive)
LRANGE(list, start, stop) ==
    Range(list,
          IF FromEnd(Len(list), start) < 0 THEN 0 ELSE FromEnd(Len(list), start),
          IF FromEnd(Len(list), stop) >= Len(list) THEN Len(list) - 1
          ELSE FromEnd(Len(list), stop))

\* a variant that reads the window from the head of the list
RangeStartFromHead(length, limit) == 0

\* Math.max(0, length - limit), limit a number given as twice its value
RangeStart(length, limit) ==
    IF Num(length) - limit < 0 THEN 0 ELSE Num(length) - limit

(***************************************************************************)
(* Requests: an operation of lib/canvas.ts, who calls it, its arguments    *)
(***************************************************************************)
Request(op, via, args) == [op |-> op, via |-> via, args |-> args]
NoRequest == Request("none", "lib", NoArgs)

Update(x, y, color) == [x |-> x, y |-> y, color |-> color]

SetPixelCall(via, x, y, color, source) ==
    Request("setPixel", via, [NoArgs EXCEPT !.x = x, !.y = y, !.color = color, !.source = source])
SetPixelsCall(via, updates, source) ==
    Request("setPixels", via, [NoArgs EXCEPT !.updates = updates, !.source = source])
ResetCanvasCall(via, width, height, palette) ==
    Request("resetCanvas", via, [NoArgs EXCEPT !.width = width, !.height = height, !.palette = palette])
GetCanvasCall(via) == Request("getCanvas", via, NoArgs)
GetCanvasEventsCall(via, limit) ==
    Request("getCanvasEvents", via, [NoArgs EXCEPT !.limit = limit])

\* the name under which the MCP handler of an operation logs itself
ToolName(op) ==
    CASE op = "getCanvas" -> "get_canvas"
      [] op = "setPixel" -> "set_pixel"
      [] op = "setPixels" -> "set_pixels"
      [] OTHER -> "get_events"

\* strings used as inputs
Str(s) == JSString(s)
ColWhiteShort == Str(<<"#","F","F","F">>)               \* "#FFF": palette entry 0
ColNewPadded == Str(<<" ","#","A","b","C"," ">>)         \* " #AbC ": new, "#aabbcc"
ColNewShort == Str(<<"#","d","e","f">>)                   \* "#def": new, "#ddeeff"
ColBlank == Str(<<" "," ">>)                               \* "  "
OnePalette == << <<"R","e","d">> >>                      \* ["Red"]

MaxOps == 2          \* operations started in one behaviour

(***************************************************************************)
(* State                                                                   *)
(***************************************************************************)
Procs == 1..2        \* the requests that can be in flight together

VARIABLES
    canvas,     \* the value at CANVAS_KEY: Undefined or Some(CanvasState)
    events,     \* the list at EVENTS_LIST_KEY, oldest first
    pc,         \* per request in flight: the backend call it awaits
    req,        \* its request
    oid,        \* the number of its operation
    cur,        \* what its redis.get returned
    upd,        \* the state it is about to store
    pend,       \* the pixel_set events it has still to append
    len,        \* what its redis.llen returned
    res,        \* what its last operation returned
    ops,        \* history: one record per operation started
    origin,     \* history: for each log entry, the operation that appended it
    nWrites,    \* history: number of writes made to CANVAS_KEY
    lineage,    \* history: the operations whose writes the stored state derives from
    pure        \* a library function applied on its own: its arguments, what it returned

vars == <<canvas, events, pc, req, oid, cur, upd, pend, len, res, ops, origin, nWrites, lineage,
          pure>>
system == <<canvas, events, pc, req, oid, cur, upd, pend, len, res, ops, origin, nWrites, lineage>>
backend == <<canvas, events>>

NoResult == [status |-> "none", error |-> "", state |-> Undefined, events |-> <<>>, op |-> 0]
Result(ok, error, state, evs, o) ==
    [status |-> IF ok THEN "ok" ELSE "error", error |-> error, state |-> state,
     events |-> evs, op |-> o]

OpRecord(r, p) ==
    [req |-> r, proc |-> p,
     snap |-> Undefined,     \* the state its getCanvas returned
     lin |-> {},             \* the lineage of that state
     readAt |-> -1,          \* nWrites when its getCanvas returned
     wrote |-> 0,            \* nWrites after its redis.set of the updated state
     calls |-> 0,            \* backend calls made by the operation itself
     lenAt |-> -1,           \* the length of the log at its redis.llen
     rangeAt |-> -1,         \* the length of the log at its redis.lrange
     failedAt |-> "none",    \* the backend call that rejected, if one did
     status |-> "running", error |-> ""]

Started ==
    /\ canvas = Undefined
    /\ events = <<>>
    /\ pc = [p \in Procs |-> "idle"]
    /\ req = [p \in Procs |-> NoRequest]
    /\ oid = [p \in Procs |-> 0]
    /\ cur = [p \in Procs |-> Undefined]
    /\ upd = [p \in Procs |-> Undefined]
    /\ pend = [p \in Procs |-> <<>>]
    /\ len = [p \in Procs |-> 0]
    /\ res = [p \in Procs |-> NoResult]
    /\ ops = <<>>
    /\ origin = <<>>
    /\ nWrites = 0
    /\ lineage = {}

\* no function is applied on its own
NotApplied == [fn |-> "none", args |-> <<>>, returned |-> <<>>]

Init == Started /\ pure = NotApplied

(***************************************************************************)
(* Steps.  One step is one backend call together with the synchronous code *)
(* that follows it up to the next await.                                   *)
(***************************************************************************)
HasLimit(r) == IsDefined(r.args.limit) /\ Get(r.args.limit) > 0

\* the first await of an operation ("throw": it throws before any)
Entry(r) ==
    CASE r.op = "setPixels" /\ Len(r.args.updates) = 0 -> "throw"
      [] r.op = "getCanvasEvents" -> IF HasLimit(r) THEN "llen" ELSE "lrange"
      [] OTHER -> "get"

\* operation o of request p returns: the request's locals are dropped
Return(p, o, ok, error, state, evs, opsNow) ==
    /\ pc' = [pc EXCEPT ![p] = "idle"]
    /\ res' = [res EXCEPT ![p] = Result(ok, error, state, evs, o)]
    /\ ops' = [opsNow EXCEPT ![o].status = IF ok THEN "ok" ELSE "error",
                             ![o].error = error]
    /\ req' = [req EXCEPT ![p] = NoRequest]
    /\ cur' = [cur EXCEPT ![p] = Undefined]
    /\ upd' = [upd EXCEPT ![p] = Undefined]
    /\ pend' = [pend EXCEPT ![p] = <<>>]
    /\ len' = [len EXCEPT ![p] = 0]

\* request p goes on to await the backend call `next` of its operation r
Await(p, r, next, opsNow) ==
    /\ pc' = [pc EXCEPT ![p] = next]
    /\ req' = [req EXCEPT ![p] = r]
    /\ ops' = opsNow

\* the body of operation r starts: it throws, or reaches its first await
Enter(p, o, r, opsNow) ==
    IF Entry(r) = "throw"
    THEN Return(p, o, FALSE, ErrEmptyBatch, Undefined, <<>>, opsNow)
    ELSE /\ Await(p, r, Entry(r), opsNow)
         /\ res' = [res EXCEPT ![p] = NoResult]
         /\ UNCHANGED <<cur, upd, pend, len>>

\* a variant in which the handlers call the operation without logging the tool use
CallUnlogged(p, r) ==
    /\ pc[p] = "idle"
    /\ Len(ops) < MaxOps
    /\ \A q \in Procs : q < p => pc[q] # "idle"
    /\ oid' = [oid EXCEPT ![p] = Len(ops) + 1]
    /\ Enter(p, Len(ops) + 1, r, Append(ops, OpRecord(r, p)))
    /\ UNCHANGED <<canvas, events, origin, nWrites, lineage>>
    /\ UNCHANGED pure

\* a caller invokes an operation; a free slot is taken lowest first.  The MCP
\* handlers first await logToolUsed (route.ts lines 65, 91, 110, 121)
Call(p, r) ==
    /\ pc[p] = "idle"
    /\ Len(ops) < MaxOps
    /\ \A q \in Procs : q < p => pc[q] # "idle"
    /\ oid' = [oid EXCEPT ![p] = Len(ops) + 1]
    /\ IF r.via = "mcp"
       THEN /\ Await(p, r, "log", Append(ops, OpRecord(r, p)))
            /\ res' = [res EXCEPT ![p] = NoResult]
            /\ UNCHANGED <<cur, upd, pend, len>>
       ELSE Enter(p, Len(ops) + 1, r, Append(ops, OpRecord(r, p)))
    /\ UNCHANGED <<canvas, events, origin, nWrites, lineage>>
    /\ UNCHANGED pure

\* logToolUsed: redis.rpush of the tool_used event, then the handler calls the operation
LogToolUsed(p) ==
    /\ pc[p] = "log"
    /\ events' = Append(events, Stringify(ToolUsedEvent(ToolName(req[p].op), req[p].args)))
    /\ origin' = Append(origin, oid[p])
    /\ Enter(p, oid[p], req[p], ops)
    /\ UNCHANGED <<canvas, oid, nWrites, lineage>>
    /\ UNCHANGED pure

\* a variant that appends the events first and never reaches the redis.set
AfterBodyEventsFirst(p, o, state, out, opsNow) ==
    IF ~out.ok
    THEN Return(p, o, FALSE, out.error, Undefined, <<>>, opsNow)
    ELSE /\ Await(p, req[p], IF out.events = <<>> THEN "set" ELSE "push", opsNow)
         /\ cur' = [cur EXCEPT ![p] = Some(state)]
         /\ upd' = [upd EXCEPT ![p] = out.updated]
         /\ pend' = [pend EXCEPT ![p] = out.events]
         /\ UNCHANGED <<res, len>>

\* the caller of getCanvas has run up to its redis.set, or has thrown
AfterBody(p, o, state, out, opsNow) ==
    IF ~out.ok
    THEN Return(p, o, FALSE, out.error, Undefined, <<>>, opsNow)
    ELSE /\ Await(p, req[p], "set", opsNow)
         /\ cur' = [cur EXCEPT ![p] = Some(state)]
         /\ upd' = [upd EXCEPT ![p] = out.updated]
         /\ pend' = [pend EXCEPT ![p] = out.events]
         /\ UNCHANGED <<res, len>>

\* getCanvas has returned `state` to operation o
AfterGetCanvas(p, o, state, opsNow) ==
    IF req[p].op = "getCanvas"
    THEN Return(p, o, TRUE, "", Some(state), <<>>, opsNow)
    ELSE AfterBody(p, o, state, BodyAfterGetCanvas(req[p].args, req[p].op, state), opsNow)

\* getCanvas: redis.get(CANVAS_KEY)
RedisGet(p) ==
    /\ pc[p] = "get"
    /\ LET o == oid[p]
           opsRead == [ops EXCEPT ![o].calls = @ + 1]
       IN  IF IsDefined(canvas)
           THEN AfterGetCanvas(p, o, Get(canvas),
                               [opsRead EXCEPT ![o].snap = canvas, ![o].lin = lineage,
                                               ![o].readAt = nWrites])
           ELSE /\ Await(p, req[p], "init", opsRead)
                /\ UNCHANGED <<cur, upd, pend, len, res>>
    /\ UNCHANGED <<canvas, events, oid, origin, nWrites, lineage>>
    /\ UNCHANGED pure

\* a variant that returns the initial state without storing it
RedisSetInitialUnstored(p) ==
    /\ pc[p] = "init"
    /\ canvas' = canvas
    /\ nWrites' = nWrites + 1
    /\ lineage' = {}
    /\ AfterGetCanvas(p, oid[p], InitialState,
                      [ops EXCEPT ![oid[p]].snap = Some(InitialState), ![oid[p]].lin = {},
                                  ![oid[p]].readAt = nWrites + 1, ![oid[p]].calls = @ + 1])
    /\ UNCHANGED <<events, oid, origin>>
    /\ UNCHANGED pure

\* getCanvas: redis.set(CANVAS_KEY, initial)
RedisSetInitial(p) ==
    /\ pc[p] = "init"
    /\ canvas' = Some(InitialState)
    /\ nWrites' = nWrites + 1
    /\ lineage' = {}
    /\ AfterGetCanvas(p, oid[p], InitialState,
                      [ops EXCEPT ![oid[p]].snap = Some(InitialState), ![oid[p]].lin = {},
                                  ![oid[p]].readAt = nWrites + 1, ![oid[p]].calls = @ + 1])
    /\ UNCHANGED <<events, oid, origin>>
    /\ UNCHANGED pure

\* a variant whose write is conditional on the key still holding the state read
RedisSetIfUnchanged(p) ==
    /\ pc[p] = "set"
    /\ canvas' = IF canvas = cur[p] THEN upd[p] ELSE canvas
    /\ nWrites' = nWrites + 1
    /\ lineage' = IF canvas = cur[p] THEN ops[oid[p]].lin \cup {oid[p]} ELSE lineage
    /\ LET o == oid[p]
           opsNow == [ops EXCEPT ![o].wrote = nWrites + 1, ![o].calls = @ + 1]
       IN  IF pend[p] = <<>>
           THEN Return(p, o, TRUE, "", upd[p], <<>>, opsNow)
           ELSE /\ Await(p, req[p], "push", opsNow)
                /\ UNCHANGED <<cur, upd, pend, len, res>>
    /\ UNCHANGED <<events, oid, origin>>
    /\ UNCHANGED pure

\* a variant in which a reset also empties the event list
RedisSetUpdatedPruning(p) ==
    /\ pc[p] = "set"
    /\ canvas' = upd[p]
    /\ nWrites' = nWrites + 1
    /\ lineage' = ops[oid[p]].lin \cup {oid[p]}
    /\ events' = IF req[p].op = "resetCanvas" THEN <<>> ELSE events
    /\ origin' = IF req[p].op = "resetCanvas" THEN <<>> ELSE origin
    /\ LET o == oid[p]
           opsNow == [ops EXCEPT ![o].wrote = nWrites + 1, ![o].calls = @ + 1]
       IN  IF pend[p] = <<>>
           THEN Return(p, o, TRUE, "", upd[p], <<>>, opsNow)
           ELSE /\ Await(p, req[p], "push", opsNow)
                /\ UNCHANGED <<cur, upd, pend, len, res>>
    /\ UNCHANGED oid
    /\ UNCHANGED pure

\* setPixel, setPixels, resetCanvas: redis.set(CANVAS_KEY, updated)
RedisSetUpdated(p) ==
    /\ pc[p] = "set"
    /\ canvas' = upd[p]
    /\ nWrites' = nWrites + 1
    /\ lineage' = ops[oid[p]].lin \cup {oid[p]}
    /\ LET o == oid[p]
           opsNow == [ops EXCEPT ![o].wrote = nWrites + 1, ![o].calls = @ + 1]
       IN  IF pend[p] = <<>>
           THEN Return(p, o, TRUE, "", upd[p], <<>>, opsNow)
           ELSE /\ Await(p, req[p], "push", opsNow)
                /\ UNCHANGED <<cur, upd, pend, len, res>>
    /\ UNCHANGED <<events, oid, origin>>
    /\ UNCHANGED pure

\* a variant that returns after the first event of a batch
AppendPixelSetOnce(p) ==
    /\ pc[p] = "push"
    /\ events' = Append(events, Stringify(Head(pend[p])))
    /\ origin' = Append(origin, oid[p])
    /\ Return(p, oid[p], TRUE, "", upd[p], <<>>, [ops EXCEPT ![oid[p]].calls = @ + 1])
    /\ UNCHANGED <<canvas, oid, nWrites, lineage>>
    /\ UNCHANGED pure

\* appendEventToLog of the next pixel_set event of setPixel or setPixels
AppendPixelSet(p) ==
    /\ pc[p] = "push"
    /\ events' = Append(events, Stringify(Head(pend[p])))
    /\ origin' = Append(origin, oid[p])
    /\ LET o == oid[p]
           opsNow == [ops EXCEPT ![o].calls = @ + 1]
       IN  IF Tail(pend[p]) = <<>>
           THEN Return(p, o, TRUE, "", upd[p], <<>>, opsNow)
           ELSE /\ Await(p, req[p], "push", opsNow)
                /\ pend' = [pend EXCEPT ![p] = Tail(pend[p])]
                /\ UNCHANGED <<cur, upd, len, res>>
    /\ UNCHANGED <<canvas, oid, nWrites, lineage>>
    /\ UNCHANGED pure

\* getCanvasEvents with a positive limit: redis.llen
RedisLlen(p) ==
    /\ pc[p] = "llen"
    /\ len' = [len EXCEPT ![p] = Len(events)]
    /\ Await(p, req[p], "lrange",
             [ops EXCEPT ![oid[p]].calls = @ + 1, ![oid[p]].lenAt = Len(events)])
    /\ UNCHANGED <<canvas, events, oid, cur, upd, pend, res, origin, nWrites, lineage>>
    /\ UNCHANGED pure

ErrNotInteger == "ERR value is not an integer or out of range"

\* a variant whose window runs from its start to the end of the list
RedisLrangeToEnd(p) ==
    /\ pc[p] = "lrange"
    /\ LET o == oid[p]
           opsNow == [ops EXCEPT ![o].calls = @ + 1, ![o].rangeAt = Len(events)]
           start == RangeStart(len[p], Get(req[p].args.limit))
       IN  IF HasLimit(req[p])
           THEN IF ~IsInteger(start)
                THEN Return(p, o, FALSE, ErrNotInteger, Undefined, <<>>, opsNow)
                ELSE Return(p, o, TRUE, "", Undefined,
                            ParseAll(LRANGE(events, IntOf(start), -1)), opsNow)
           ELSE Return(p, o, TRUE, "", Undefined, ParseAll(LRANGE(events, 0, -1)), opsNow)
    /\ UNCHANGED <<canvas, events, oid, origin, nWrites, lineage>>
    /\ UNCHANGED pure

\* getCanvasEvents: redis.lrange, of the window or of the whole list, and the parse
RedisLrange(p) ==
    /\ pc[p] = "lrange"
    /\ LET o == oid[p]
           opsNow == [ops EXCEPT ![o].calls = @ + 1, ![o].rangeAt = Len(events)]
           start == RangeStart(len[p], Get(req[p].args.limit))
       IN  IF HasLimit(req[p])
           THEN IF ~IsInteger(start)
                THEN Return(p, o, FALSE, ErrNotInteger, Undefined, <<>>, opsNow)
                ELSE Return(p, o, TRUE, "", Undefined,
                            ParseAll(LRANGE(events, IntOf(start), len[p] - 1)), opsNow)
           ELSE Return(p, o, TRUE, "", Undefined, ParseAll(LRANGE(events, 0, -1)), opsNow)
    /\ UNCHANGED <<canvas, events, oid, origin, nWrites, lineage>>
    /\ UNCHANGED pure

(***************************************************************************)
(* The callers                                                             *)
(***************************************************************************)
Mcp == Some("mcp")

\* app/mcp/route.ts: the four tools (zod admits integers >= 0, strings, a
\* non-empty batch, a positive integer limit)
ToolRequests ==
    {GetCanvasCall("mcp"),
     SetPixelCall("mcp", Num(0), Num(0), ColWhiteShort, Mcp),
     SetPixelCall("mcp", Num(1), Num(64), ColNewShort, Mcp),
     SetPixelsCall("mcp", <<Update(Num(1), Num(0), ColNewPadded),
                            Update(Num(1), Num(0), ColNewShort)>>, Mcp),
     GetCanvasEventsCall("mcp", Some(Num(1)))}

\* app/api/canvas/route.ts, app/api/canvas/events/route.ts
HttpRequests ==
    {GetCanvasCall("http"),
     GetCanvasEventsCall("http", Undefined),
     GetCanvasEventsCall("http", Some(Num(2)))}

\* scripts/reset-canvas.ts
ScriptRequests ==
    {ResetCanvasCall("script", Some(Num(100)), Some(Num(100)), Some(DEFAULT_PALETTE))}

\* direct callers of the exported functions
LibRequests ==
    {SetPixelCall("lib", Num(1), Num(1), ColNewPadded, Undefined),
     SetPixelCall("lib", Num(-1), Num(0), ColWhiteShort, Undefined),
     SetPixelsCall("lib", <<>>, Undefined),
     SetPixelsCall("lib", <<Update(Num(0), Num(1), ColNewShort),
                            Update(Half(0), Num(0), ColWhiteShort)>>, Undefined),
     SetPixelsCall("lib", <<Update(Num(0), Num(1), ColNewShort),
                            Update(Num(0), Num(0), ColBlank)>>, Undefined),
     ResetCanvasCall("lib", Some(Num(2)), Undefined, Some(OnePalette))}

Requests == ToolRequests \cup HttpRequests \cup ScriptRequests \cup LibRequests

\* every backend call succeeds
Next ==
    \E p \in Procs :
        \/ \E r \in Requests : Call(p, r)
        \/ LogToolUsed(p)
        \/ RedisGet(p)
        \/ RedisSetInitial(p)
        \/ RedisSetUpdated(p)
        \/ AppendPixelSet(p)
        \/ RedisLlen(p)
        \/ RedisLrange(p)

Spec == Init /\ [][Next]_vars

(***************************************************************************)
(* The same system on a backend whose calls can reject.  No operation and  *)
(* no handler catches the rejection of a redis call: it ends the request   *)
(* with that error, whatever the request has done before                   *)
(***************************************************************************)
ErrBackend == "redis request failed"

\* a variant that puts the state it read back when an append rejects
BackendFailsRollingBack(p) ==
    /\ pc[p] # "idle"
    /\ Return(p, oid[p], FALSE, ErrBackend, Undefined, <<>>,
              [ops EXCEPT ![oid[p]].failedAt = pc[p]])
    /\ canvas' = IF pc[p] = "push" THEN cur[p] ELSE canvas
    /\ UNCHANGED <<events, oid, origin, nWrites, lineage>>
    /\ UNCHANGED pure

\* the backend call request p awaits rejects without effect
BackendFails(p) ==
    /\ pc[p] # "idle"
    /\ Return(p, oid[p], FALSE, ErrBackend, Undefined, <<>>,
              [ops EXCEPT ![oid[p]].failedAt = pc[p]])
    /\ UNCHANGED <<canvas, events, oid, origin, nWrites, lineage>>
    /\ UNCHANGED pure

FaultRequests ==
    {SetPixelCall("mcp", Num(0), Num(0), ColWhiteShort, Mcp),
     SetPixelCall("lib", Num(64), Num(0), ColWhiteShort, Undefined),
     SetPixelsCall("lib", <<Update(Num(1), Num(0), ColNewPadded),
                            Update(Num(0), Num(1), ColNewShort)>>, Some("api")),
     GetCanvasCall("lib"),
     GetCanvasEventsCall("mcp", Some(Num(1)))}

FaultNext ==
    \E p \in Procs :
        \/ \E r \in FaultRequests : Call(p, r)
        \/ LogToolUsed(p)
        \/ RedisGet(p)
        \/ RedisSetInitial(p)
        \/ RedisSetUpdated(p)
        \/ AppendPixelSet(p)
        \/ RedisLlen(p)
        \/ RedisLrange(p)
        \/ BackendFails(p)

FaultSpec == Init /\ [][FaultNext]_vars

(***************************************************************************)
(* The same system driven by requests around the palette ceiling: a reset  *)
(* to a 2x2 canvas with a palette of MaxPalette entries ("00".."ff"), and  *)
(* batches whose second update is rejected                                 *)
(***************************************************************************)
HexSeq == <<"0","1","2","3","4","5","6","7","8","9","a","b","c","d","e","f">>
FullPalette == [i \in 1..MaxPalette |-> <<HexSeq[((i - 1) \div 16) + 1], HexSeq[((i - 1) % 16) + 1]>>]
ColFirst == Str(<<"0","0">>)         \* entry 0 of FullPalette
ColLast == Str(<<"F","F">>)          \* "FF": entry 255 of FullPalette

PaletteRequests ==
    {ResetCanvasCall("lib", Some(Num(2)), Some(Num(2)), Some(FullPalette)),
     SetPixelsCall("lib", <<Update(Num(0), Num(0), ColFirst),
                            Update(Num(1), Num(1), ColLast)>>, Undefined),
     SetPixelsCall("lib", <<Update(Num(1), Num(0), ColLast),
                            Update(Num(0), Num(1), ColNewShort)>>, Some("script")),
     SetPixelsCall("lib", <<Update(Num(0), Num(0), ColFirst),
                            Update(Num(0), Num(64), ColFirst)>>, Undefined),
     SetPixelsCall("lib", <<Update(Num(0), Num(0), ColFirst),
                            Update(Half(0), Num(0), ColFirst)>>, Undefined),
     SetPixelsCall("lib", <<Update(Num(0), Num(0), ColFirst),
                            Update(Num(0), Num(1), ColBlank)>>, Undefined),
     SetPixelsCall("lib", <<Update(Num(0), Num(0), ColFirst),
                            Update(Num(0), Num(1), JSUndefined)>>, Undefined),
     GetCanvasEventsCall("mcp", Some(Num(1)))}

PaletteNext ==
    \E p \in Procs :
        \/ \E r \in PaletteRequests : Call(p, r)
        \/ LogToolUsed(p)
        \/ RedisGet(p)
        \/ RedisSetInitial(p)
        \/ RedisSetUpdated(p)
        \/ AppendPixelSet(p)
        \/ RedisLlen(p)
        \/ RedisLrange(p)

PaletteSpec == Init /\ [][PaletteNext]_vars

(***************************************************************************)
(* The same system driven by resets of every kind: dimensions given or     *)
(* inherited, valid or not, a palette given, empty or inherited, next to   *)
(* pixel writes and reads                                                  *)
(***************************************************************************)
ResetRequests ==
    {ResetCanvasCall("lib", Some(Num(3)), Undefined, Undefined),
     ResetCanvasCall("lib", Undefined, Undefined, Some(<<>>)),
     ResetCanvasCall("lib", Some(Num(0)), Undefined, Undefined),
     ResetCanvasCall("lib", Some(Half(1)), Some(Num(2)), Undefined),
     ResetCanvasCall("lib", Undefined, Some(Num(-1)), Some(OnePalette)),
     SetPixelCall("mcp", Num(2), Num(1), ColNewShort, Mcp),
     SetPixelsCall("lib", <<Update(Num(0), Num(0), ColNewPadded),
                            Update(Num(1), Num(2), ColWhiteShort)>>, Undefined),
     GetCanvasCall("lib"),
     GetCanvasEventsCall("mcp", Some(Num(1)))}

ResetNext ==
    \E p \in Procs :
        \/ \E r \in ResetRequests : Call(p, r)
        \/ LogToolUsed(p)
        \/ RedisGet(p)
        \/ RedisSetInitial(p)
        \/ RedisSetUpdated(p)
        \/ AppendPixelSet(p)
        \/ RedisLlen(p)
        \/ RedisLrange(p)

ResetSpec == Init /\ [][ResetNext]_vars

(***************************************************************************)
(* The same system at the palette ceiling: a reset to a 2x2 canvas with a  *)
(* palette of MaxPalette entries, or of one more, and single pixel writes  *)
(* of a colour the palette has and of one it has not                       *)
(***************************************************************************)
OverPalette == Append(FullPalette, <<"x">>)      \* MaxPalette + 1 entries

CeilingRequests ==
    {ResetCanvasCall("lib", Some(Num(2)), Some(Num(2)), Some(FullPalette)),
     ResetCanvasCall("lib", Some(Num(2)), Some(Num(2)), Some(OverPalette)),
     SetPixelCall("lib", Num(0), Num(0), ColNewShort, Undefined),
     SetPixelCall("lib", Num(1), Num(1), ColLast, Some("api")),
     GetCanvasEventsCall("mcp", Some(Num(1)))}

CeilingNext ==
    \E p \in Procs :
        \/ \E r \in CeilingRequests : Call(p, r)
        \/ LogToolUsed(p)
        \/ RedisGet(p)
        \/ RedisSetInitial(p)
        \/ RedisSetUpdated(p)
        \/ AppendPixelSet(p)
        \/ RedisLlen(p)
        \/ RedisLrange(p)

CeilingSpec == Init /\ [][CeilingNext]_vars

(***************************************************************************)
(* Vocabulary of the properties                                            *)
(***************************************************************************)
TypeOK ==
    /\ Len(canvas) <= 1
    /\ Len(origin) = Len(events)
    /\ Len(ops) <= MaxOps

PaletteOf(store) == Get(store).meta.palette

\* the palette index stored for the pixel (x, y) of a canvas state, x and y integers
PixelAt(state, x, y) == At(Base64Bytes(state.pixelsBase64), y * state.meta.width + x)

IsPixelSet(i) == events[i].val.type = "pixel_set"
IsToolUsed(i) == events[i].val.type = "tool_used"
PixelSetsOf(o) == {i \in DOMAIN events : origin[i] = o /\ IsPixelSet(i)}
ToolUsedOf(o) == {i \in DOMAIN events : origin[i] = o /\ IsToolUsed(i)}

Quiescent == \A p \in Procs : pc[p] = "idle"
InFlight(o) == \E p \in Procs : pc[p] # "idle" /\ oid[p] = o
IsOp(o, name) == ops[o].req.op = name
Succeeded(o) == ops[o].status = "ok"
Failed(o) == ops[o].status = "error"
\* the operation threw by itself: no backend call of its rejected
FailedValidation(o) == Failed(o) /\ ops[o].failedAt = "none"

\* no write to CANVAS_KEY came between the operation's getCanvas and its own write
WroteOverItsSnapshot(o) == ops[o].wrote = ops[o].readAt + 1

\* the last n elements of a sequence
LastN(seq, n) == SubSeq(seq, Len(seq) - n + 1, Len(seq))

(***************************************************************************)
(* C1.  After a setPixel(x, y, color) that ran with no other write between *)
(* its read and its write and succeeded, the grid cell (x, y) returned by  *)
(* the next getCanvas maps through the returned palette to exactly the     *)
(* normalized form of color.                                               *)
(***************************************************************************)
CellColour(state, x, y) ==
    IF PixelAt(state, x, y) < Len(state.meta.palette)
    THEN Some(state.meta.palette[PixelAt(state, x, y) + 1])
    ELSE Undefined

\* getCanvas g read the state that setPixel s wrote over its own snapshot
ReadsWriteOf(g, s) ==
    /\ IsOp(g, "getCanvas") /\ Succeeded(g)
    /\ IsOp(s, "setPixel") /\ Succeeded(s)
    /\ WroteOverItsSnapshot(s)
    /\ ops[g].readAt = ops[s].wrote

C1_CellIsNormalizedColour ==
    \A g, s \in DOMAIN ops :
        ReadsWriteOf(g, s) =>
            CellColour(Get(ops[g].snap), IntOf(ops[s].req.args.x), IntOf(ops[s].req.args.y))
                = Some(normalizeColorString(ops[s].req.args.color.chars))

(***************************************************************************)
(* C2.  Two setPixel operations on different coordinates that computed     *)
(* from the same snapshot: once the later of the two writes is the last    *)
(* write, the store holds exactly the later writer's update of the         *)
(* snapshot, without the earlier writer's pixel and palette growth.        *)
(***************************************************************************)
SameSnapshotWriters(a, b) ==
    /\ a # b
    /\ IsOp(a, "setPixel") /\ IsOp(b, "setPixel")
    /\ <<ops[a].req.args.x, ops[a].req.args.y>> # <<ops[b].req.args.x, ops[b].req.args.y>>
    /\ IsDefined(ops[a].snap) /\ ops[a].snap = ops[b].snap
    /\ 0 < ops[a].wrote /\ ops[a].wrote < ops[b].wrote
    /\ ops[b].wrote = nWrites

C2_LostUpdate ==
    \A a, b \in DOMAIN ops :
        SameSnapshotWriters(a, b) =>
            /\ canvas = setPixelBody(ops[b].req.args, Get(ops[b].snap)).updated
            /\ PixelAt(Get(canvas), IntOf(ops[a].req.args.x), IntOf(ops[a].req.args.y))
                 = PixelAt(Get(ops[a].snap), IntOf(ops[a].req.args.x), IntOf(ops[a].req.args.y))
            /\ PaletteOf(canvas)
                 = ensureColorInPalette(PaletteOf(ops[b].snap),
                                        ops[b].req.args.color.chars).updatedPalette

\* both calls succeeded and logged their event; the first one's colour is gone
C2_Witness ==
    \E a, b \in DOMAIN ops :
        /\ SameSnapshotWriters(a, b)
        /\ Succeeded(a) /\ Succeeded(b)
        /\ PixelSetsOf(a) # {} /\ PixelSetsOf(b) # {}
        /\ findIndex(PaletteOf(canvas),
                     normalizeColorString(ops[a].req.args.color.chars)) = -1
        /\ \E i \in PixelSetsOf(a) : events[i].val.colorIndex >= Len(PaletteOf(canvas))

(***************************************************************************)
(* C3.  As stated: the stored palette never gets shorter, whatever writes  *)
(* the canvas key.                                                         *)
(***************************************************************************)
C3_Original ==
    [][IsDefined(canvas) /\ IsDefined(canvas')
          => Len(PaletteOf(canvas')) >= Len(PaletteOf(canvas))]_vars

\* request p performs the redis.set of its updated state in this step
WritesUpdated(p) == pc[p] = "set" /\ pc'[p] # "set"

ReplacesPalette(r) == r.op = "resetCanvas" /\ IsDefined(r.args.palette)

(***************************************************************************)
(* C3, amended.  A write of setPixel, setPixels, or resetCanvas called     *)
(* without a palette, that replaces the very state the operation read,     *)
(* never shortens the stored palette.                                      *)
(***************************************************************************)
C3_Amended ==
    [][\A p \in Procs :
          (WritesUpdated(p) /\ canvas = cur[p] /\ ~ReplacesPalette(req[p]))
              => Len(PaletteOf(canvas')) >= Len(PaletteOf(canvas))]_vars

\* a setPixel wrote over its own snapshot and the palette grew by its colour
C3_Witness ==
    \E o \in DOMAIN ops :
        /\ IsOp(o, "setPixel") /\ Succeeded(o)
        /\ WroteOverItsSnapshot(o) /\ ops[o].wrote = nWrites
        /\ Len(PaletteOf(canvas)) = Len(PaletteOf(ops[o].snap)) + 1

NoReset == \A o \in DOMAIN ops : ~IsOp(o, "resetCanvas")

\* the stored palette still has the colour of log entry i at the entry's index
EventIndexStands(i) ==
    /\ events[i].val.colorIndex < Len(PaletteOf(canvas))
    /\ PaletteOf(canvas)[events[i].val.colorIndex + 1] = events[i].val.color

(***************************************************************************)
(* C4.  As stated: with resetCanvas never called, the colour of every      *)
(* pixel_set event in the log stays at the event's index in every later    *)
(* stored state.                                                           *)
(***************************************************************************)
C4_Original ==
    (NoReset /\ IsDefined(canvas)) =>
        \A i \in DOMAIN events : IsPixelSet(i) => EventIndexStands(i)

(***************************************************************************)
(* C4, amended.  With resetCanvas never called, the colour of a pixel_set  *)
(* event stays at the event's index in every stored state that derives     *)
(* from the write of the operation that logged the event.                  *)
(***************************************************************************)
C4_Amended ==
    (NoReset /\ IsDefined(canvas)) =>
        \A i \in DOMAIN events :
            (IsPixelSet(i) /\ origin[i] \in lineage) => EventIndexStands(i)

\* the event of a colour added by its operation has outlived a later write
C4_Witness ==
    /\ NoReset
    /\ \E i \in DOMAIN events :
          /\ IsPixelSet(i) /\ origin[i] \in lineage
          /\ events[i].val.colorIndex >= Len(DEFAULT_PALETTE)
          /\ ops[origin[i]].wrote < nWrites
          /\ EventIndexStands(i)

\* the pixel_set events a call appends when it succeeds
PixelSetsDue(o) ==
    IF IsOp(o, "setPixel") THEN 1
    ELSE IF IsOp(o, "setPixels") THEN Len(ops[o].req.args.updates)
    ELSE 0

ExpectedPixelSets(o) == IF Succeeded(o) THEN PixelSetsDue(o) ELSE 0

RECURSIVE SumExpected(_)
SumExpected(n) == IF n = 0 THEN 0 ELSE ExpectedPixelSets(n) + SumExpected(n - 1)

(***************************************************************************)
(* C5.  As stated: when no operation is in flight, the pixel_set events in *)
(* the log number one per successful setPixel call plus one per update of  *)
(* each successful setPixels call; a call that returned an error has none. *)
(***************************************************************************)
C5_Original ==
    Quiescent =>
        /\ Cardinality({i \in DOMAIN events : IsPixelSet(i)}) = SumExpected(Len(ops))
        /\ \A o \in DOMAIN ops : Cardinality(PixelSetsOf(o)) = ExpectedPixelSets(o)

\* the call ended because one of its appends of a pixel_set event rejected
AppendRejected(o) == Failed(o) /\ ops[o].failedAt = "push"

(***************************************************************************)
(* C5, amended.  When no operation is in flight: a call that succeeded has *)
(* one pixel_set event (setPixel) or one per update (setPixels); a call    *)
(* that returned an error has none, except a call whose append of an event *)
(* rejected, which has the events it appended before, fewer than it owed.  *)
(***************************************************************************)
C5_Amended ==
    Quiescent =>
        \A o \in DOMAIN ops :
            /\ Succeeded(o) => Cardinality(PixelSetsOf(o)) = PixelSetsDue(o)
            /\ (Failed(o) /\ ~AppendRejected(o)) => PixelSetsOf(o) = {}
            /\ AppendRejected(o) => Cardinality(PixelSetsOf(o)) < PixelSetsDue(o)

\* a successful batch of two updates next to a setPixel that failed validation
C5_Witness ==
    /\ Quiescent
    /\ \E o \in DOMAIN ops :
          IsOp(o, "setPixels") /\ Succeeded(o) /\ Cardinality(PixelSetsOf(o)) = 2
    /\ \E o \in DOMAIN ops :
          IsOp(o, "setPixel") /\ Failed(o) /\ ops[o].error = ErrOutOfBounds

(***************************************************************************)
(* C6.  Every tool invocation appends exactly one tool_used event, named   *)
(* after the tool, before its body makes any backend call and before any   *)
(* pixel_set event of the invocation; it is there also when the body fails.*)
(***************************************************************************)
AtLog(o) == \E p \in Procs : pc[p] = "log" /\ oid[p] = o

C6_ToolUsedFirst ==
    \A o \in DOMAIN ops :
        /\ ops[o].req.via = "mcp" =>
              /\ Cardinality(ToolUsedOf(o)) = IF AtLog(o) THEN 0 ELSE 1
              /\ AtLog(o) => (ops[o].calls = 0 /\ PixelSetsOf(o) = {})
              /\ \A i \in ToolUsedOf(o) :
                    /\ events[i].val.toolName = ToolName(ops[o].req.op)
                    /\ \A j \in PixelSetsOf(o) : i < j
        /\ ops[o].req.via # "mcp" => ToolUsedOf(o) = {}

\* a tool whose body failed after its read of the store, its event in the log
C6_Witness ==
    \E o \in DOMAIN ops :
        /\ ops[o].req.via = "mcp" /\ Failed(o)
        /\ ops[o].calls > 0
        /\ Cardinality(ToolUsedOf(o)) = 1

(***************************************************************************)
(* C7.  A pixel_set event is in the log only after the store write of the  *)
(* operation that appended it; an operation that failed validation has no  *)
(* pixel_set event.                                                        *)
(***************************************************************************)
C7_EventAfterWrite ==
    /\ \A i \in DOMAIN events :
          IsPixelSet(i) =>
              /\ IsOp(origin[i], "setPixel") \/ IsOp(origin[i], "setPixels")
              /\ 0 < ops[origin[i]].wrote /\ ops[origin[i]].wrote <= nWrites
    /\ \A o \in DOMAIN ops : FailedValidation(o) => (PixelSetsOf(o) = {} /\ ops[o].wrote = 0)

\* a batch between its two events, next to a setPixel that failed validation
C7_Witness ==
    /\ \E i \in DOMAIN events : IsPixelSet(i) /\ InFlight(origin[i])
    /\ \E o \in DOMAIN ops : IsOp(o, "setPixel") /\ FailedValidation(o)

\* the state the getCanvas of request p returns, p awaiting its read or its
\* initialising write
Seen(p) == IF pc[p] = "get" /\ IsDefined(canvas) THEN Get(canvas) ELSE InitialState

OutsideGrid(x, y, state) ==
    \/ x < 0 \/ y < 0
    \/ x >= Num(state.meta.width) \/ y >= Num(state.meta.height)

\* request p, a setPixel out of the bounds of the state it gets, takes a step
OutOfBoundsStep(p) ==
    /\ req[p].op = "setPixel"
    /\ pc[p] \in {"get", "init"} /\ pc'[p] # pc[p]
    /\ OutsideGrid(req[p].args.x, req[p].args.y, Seen(p))

(***************************************************************************)
(* C8.  As stated: an out-of-bounds setPixel leaves the value of the       *)
(* canvas key and the log exactly as they were, also when the key is       *)
(* absent.                                                                 *)
(***************************************************************************)
C8_Original ==
    [][\A p \in Procs : OutOfBoundsStep(p) => (canvas' = canvas /\ events' = events)]_vars

(***************************************************************************)
(* C8, amended.  An out-of-bounds setPixel fails with the out-of-bounds    *)
(* error unless a backend call of its rejects; it appends nothing to the   *)
(* log, and it writes nothing to the canvas key except, when its read      *)
(* found the key absent, the default state that getCanvas stores.          *)
(***************************************************************************)
C8_Amended ==
    [][\A p \in Procs :
          OutOfBoundsStep(p) =>
              /\ events' = events
              /\ \/ canvas' = canvas
                 \/ pc[p] = "init" /\ canvas' = Some(InitialState)
              /\ \/ pc'[p] = "init" /\ pc[p] = "get" /\ canvas = Undefined
                 \/ /\ pc'[p] = "idle" /\ res'[p].status = "error"
                    /\ ops'[oid[p]].failedAt = "none" => res'[p].error = ErrOutOfBounds]_vars

OutOfBoundsFailure(o) ==
    IsOp(o, "setPixel") /\ FailedValidation(o) /\ ops[o].error = ErrOutOfBounds

\* one such call found the key absent and stored the default state, a later
\* one left the state written in between as it was
C8_Witness ==
    \E a, b \in DOMAIN ops :
        /\ OutOfBoundsFailure(a) /\ ops[a].calls = 2
        /\ OutOfBoundsFailure(b) /\ ops[b].calls = 1
        /\ ops[b].snap = canvas
        /\ PixelSetsOf(a) = {} /\ PixelSetsOf(b) = {}

(***************************************************************************)
(* C9.  setPixels rejects its batch atomically: when any update is out of  *)
(* bounds, has a non-integer coordinate or an empty or non-string colour,  *)
(* or the batch overflows the palette, the call fails, never writes the    *)
(* canvas key and appends no pixel_set event, whatever valid updates come  *)
(* before the failing one.                                                 *)
(***************************************************************************)
BadUpdate(u, state) ==
    \/ ~IsInteger(u.x) \/ ~IsInteger(u.y)
    \/ OutsideGrid(u.x, u.y, state)
    \/ u.color.type # "string"
    \/ \A i \in DOMAIN u.color.chars : u.color.chars[i] \in WhiteSpace

\* the colours of the batch that the palette does not have yet
NewColours(updates, palette) ==
    {normalizeColorString(updates[k].color.chars) : k \in DOMAIN updates}
        \ {normalizeColorString(palette[i]) : i \in DOMAIN palette}

BatchInvalid(updates, state) ==
    \/ \E k \in DOMAIN updates : BadUpdate(updates[k], state)
    \/ /\ NewColours(updates, state.meta.palette) # {}
       /\ Len(state.meta.palette) + Cardinality(NewColours(updates, state.meta.palette))
             > MaxPalette

C9_BatchAtomic ==
    \A o \in DOMAIN ops :
        (/\ IsOp(o, "setPixels") /\ IsDefined(ops[o].snap)
         /\ BatchInvalid(ops[o].req.args.updates, Get(ops[o].snap)))
            => /\ FailedValidation(o)
               /\ ops[o].wrote = 0
               /\ PixelSetsOf(o) = {}

\* a batch whose first update is valid and whose second overflows a full palette
C9_Witness ==
    \E o \in DOMAIN ops :
        /\ IsOp(o, "setPixels") /\ Failed(o) /\ ops[o].error = ErrPaletteFull
        /\ ~BadUpdate(ops[o].req.args.updates[1], Get(ops[o].snap))
        /\ Len(PaletteOf(ops[o].snap)) = MaxPalette
        /\ canvas = ops[o].snap
        /\ PixelSetsOf(o) = {}

(***************************************************************************)
(* C10.  getCanvasEvents with a positive integer limit N, no append coming *)
(* between its length read and its range read, returns exactly the last    *)
(* min(N, L) events of the log of length L, oldest first.                  *)
(***************************************************************************)
LogValues == [i \in DOMAIN events |-> events[i].val]

C10_TailWindow ==
    [][\A p \in Procs :
          (/\ pc[p] = "lrange" /\ pc'[p] = "idle"
           /\ HasLimit(req[p]) /\ IsInteger(Get(req[p].args.limit))
           /\ len[p] = Len(events))
              => /\ res'[p].status = "ok"
                 /\ res'[p].events
                      = LastN(LogValues, Min({IntOf(Get(req[p].args.limit)), Len(events)}))]_vars

\* a call with a limit below the length of the log got exactly that many events
C10_Witness ==
    \E p \in Procs :
        /\ res[p].status = "ok"
        /\ ops[res[p].op].req.op = "getCanvasEvents"
        /\ HasLimit(ops[res[p].op].req)
        /\ Len(res[p].events) = IntOf(Get(ops[res[p].op].req.args.limit))
        /\ Len(res[p].events) < Len(events)
        /\ res[p].events = LastN(LogValues, Len(res[p].events))

(***************************************************************************)
(* C11.  The event log is append-only: every step leaves the log it found  *)
(* as a prefix of the log it leaves, so no entry is removed, reordered or  *)
(* rewritten; a reset leaves the log untouched.                            *)
(***************************************************************************)
IsPrefix(s, t) == Len(s) <= Len(t) /\ SubSeq(t, 1, Len(s)) = s

C11_AppendOnly ==
    [][/\ IsPrefix(events, events')
       /\ \A p \in Procs :
             (WritesUpdated(p) /\ req[p].op = "resetCanvas") => events' = events]_vars

\* a reset has written the store and the entries logged before it are there
C11_Witness ==
    \E o \in DOMAIN ops :
        /\ IsOp(o, "resetCanvas") /\ Succeeded(o)
        /\ \E i \in DOMAIN events : origin[i] # o /\ IsPixelSet(i)

(***************************************************************************)
(* C12.  Every stored canvas state has a palette of at most 256 entries,   *)
(* whatever the arguments of the resets and pixel writes before it.        *)
(***************************************************************************)
C12_PaletteBounded ==
    IsDefined(canvas) => Len(PaletteOf(canvas)) <= MaxPalette

\* the palette has an entry whose normalized form is that of the colour
HasColour(palette, color) == findIndex(palette, normalizeColorString(color.chars)) # -1

\* a valid setPixel whose getCanvas returned a palette of exactly MaxPalette entries
OnFullPalette(o) ==
    /\ IsOp(o, "setPixel") /\ IsDefined(ops[o].snap)
    /\ Len(PaletteOf(ops[o].snap)) = MaxPalette
    /\ ~OutsideGrid(ops[o].req.args.x, ops[o].req.args.y, Get(ops[o].snap))
    /\ ~BadUpdate(ops[o].req.args, Get(ops[o].snap))

(***************************************************************************)
(* C13.  On a stored palette of exactly 256 entries, setPixel with a new   *)
(* colour fails with the palette-full error, having made no store write    *)
(* and no append; setPixel with a colour the palette has does not fail and *)
(* ends with its write and its one event.                                  *)
(***************************************************************************)
C13_PaletteFull ==
    \A o \in DOMAIN ops :
        OnFullPalette(o) =>
            IF HasColour(PaletteOf(ops[o].snap), ops[o].req.args.color)
            THEN /\ ~Failed(o)
                 /\ Succeeded(o) => (ops[o].wrote > 0 /\ Cardinality(PixelSetsOf(o)) = 1)
            ELSE /\ FailedValidation(o) /\ ops[o].error = ErrPaletteFull
                 /\ ops[o].wrote = 0 /\ ops[o].calls = 1
                 /\ PixelSetsOf(o) = {}

\* the new colour was refused and the store still holds the state that was read
C13_Witness ==
    \E o \in DOMAIN ops :
        /\ OnFullPalette(o) /\ Failed(o) /\ ops[o].error = ErrPaletteFull
        /\ canvas = ops[o].snap /\ events = <<>>

\* the grid of a state decodes to exactly width * height cells
GridFits(state) ==
    /\ Base64Bytes(state.pixelsBase64).length = state.meta.width * state.meta.height
    /\ decodePixelsFromBase64(state.pixelsBase64,
                              state.meta.width * state.meta.height).ok

(***************************************************************************)
(* C14.  Every stored canvas state has a grid of exactly width * height    *)
(* cells for the width and height stored with it: decoding it against its  *)
(* own metadata never fails with a length mismatch.                        *)
(***************************************************************************)
C14_GridFits == IsDefined(canvas) => GridFits(Get(canvas))

\* a pixel written into the 3 x 64 canvas a reset left
C14_Witness ==
    /\ IsDefined(canvas)
    /\ Get(canvas).meta.width = 3 /\ Get(canvas).meta.height = DefaultHeight
    /\ \E o \in DOMAIN ops :
          IsOp(o, "setPixel") /\ Succeeded(o) /\ ops[o].wrote = nWrites
    /\ PixelAt(Get(canvas), 2, 1) # 0

\* the palette indices held by the cells of a state's grid
CellValues(cells) ==
    {cells.nz[i] : i \in DOMAIN cells.nz}
        \cup (IF Cardinality(DOMAIN cells.nz) < cells.length THEN {0} ELSE {})

(***************************************************************************)
(* C15.  In every stored canvas state every cell of the grid holds an      *)
(* index strictly below the length of the palette stored with it, whatever *)
(* palette a reset was given, the empty one included.                      *)
(***************************************************************************)
C15_IndicesInPalette ==
    IsDefined(canvas) =>
        \A v \in CellValues(Base64Bytes(Get(canvas).pixelsBase64)) :
            v < Len(PaletteOf(canvas))

\* width 64, height 64, the 16 default colours, 4096 cells all 0
IsDefaultState(state) ==
    /\ state.meta.width = 64 /\ state.meta.height = 64
    /\ state.meta.palette = DEFAULT_PALETTE /\ Len(state.meta.palette) = 16
    /\ Base64Bytes(state.pixelsBase64) = [length |-> 4096, nz |-> EmptyMap]

\* request p, a getCanvas, makes its read or its initialising write
GetCanvasStep(p) ==
    req[p].op = "getCanvas" /\ pc[p] \in {"get", "init"} /\ pc'[p] # pc[p]

(***************************************************************************)
(* C16.  getCanvas whose read finds the key absent stores and returns the  *)
(* default state; getCanvas whose read finds a stored state returns it and *)
(* writes nothing; neither appends anything to the event log.              *)
(***************************************************************************)
C16_GetCanvas ==
    [][\A p \in Procs :
          GetCanvasStep(p) =>
              /\ events' = events
              /\ IF pc[p] = "get" /\ IsDefined(canvas)
                 THEN /\ canvas' = canvas
                      /\ pc'[p] = "idle" /\ res'[p].status = "ok"
                      /\ res'[p].state = canvas
                 ELSE IF pc[p] = "get"
                 THEN canvas' = canvas /\ pc'[p] = "init"
                 ELSE /\ IsDefined(canvas') /\ IsDefaultState(Get(canvas'))
                      /\ pc'[p] = "idle" /\ res'[p].status = "ok"
                      /\ res'[p].state = canvas']_vars

\* one getCanvas initialised the key, a second one read what it stored
C16_Witness ==
    \E a, b \in DOMAIN ops :
        /\ IsOp(a, "getCanvas") /\ Succeeded(a) /\ ops[a].calls = 2
        /\ IsOp(b, "getCanvas") /\ Succeeded(b) /\ ops[b].calls = 1
        /\ ops[b].snap = canvas /\ IsDefaultState(Get(canvas))
        /\ nWrites = 1 /\ events = <<>>

\* request p performs the redis.set of the initial state in this step
WritesInitial(p) == pc[p] = "init" /\ pc'[p] # "init"

(***************************************************************************)
(* C17.  The initialising write of getCanvas only ever replaces an absent  *)
(* value or a state identical to the default one: it never overwrites a    *)
(* state that a pixel write or a reset of another operation has stored.    *)
(***************************************************************************)
C17_InitHarmless ==
    [][\A p \in Procs :
          WritesInitial(p) => (canvas = Undefined \/ canvas = Some(InitialState))]_vars

\* a dimension of resetCanvas as resolved against the state it read, a number
\* carried as twice its value
ResolvedDim(given, existing) == IF IsDefined(given) THEN Get(given) ELSE Num(existing)

PositiveInteger(v) == IsInteger(v) /\ v > 0

ValidDimensions(args, state) ==
    /\ PositiveInteger(ResolvedDim(args.width, state.meta.width))
    /\ PositiveInteger(ResolvedDim(args.height, state.meta.height))

\* request p, a resetCanvas, gets the state of its getCanvas in this step
ResetGetsState(p) ==
    /\ req[p].op = "resetCanvas"
    /\ pc[p] \in {"get", "init"} /\ pc'[p] \notin {pc[p], "init"}

\* the state resetCanvas is to store for its arguments and the state it read
IsResetOf(state, args, existing) ==
    /\ Num(state.meta.width) = ResolvedDim(args.width, existing.meta.width)
    /\ Num(state.meta.height) = ResolvedDim(args.height, existing.meta.height)
    /\ state.meta.palette
         = (IF IsDefined(args.palette) THEN Get(args.palette) ELSE existing.meta.palette)
    /\ Base64Bytes(state.pixelsBase64)
         = [length |-> state.meta.width * state.meta.height, nz |-> EmptyMap]

(***************************************************************************)
(* C18.  resetCanvas whose resolved dimensions are positive integers goes  *)
(* on to its store write; the write stores, and the call returns, a state  *)
(* of the resolved width and height (argument, else the value read), with  *)
(* the given palette, else the one read, and width * height cells all 0;   *)
(* nothing is appended to the log.                                         *)
(***************************************************************************)
C18_Reset ==
    [][\A p \in Procs :
          /\ (ResetGetsState(p) /\ ValidDimensions(req[p].args, Seen(p)))
                => (pc'[p] = "set" /\ events' = events)
          /\ (WritesUpdated(p) /\ req[p].op = "resetCanvas")
                => /\ IsDefined(canvas')
                   /\ IsResetOf(Get(canvas'), req[p].args, Get(cur[p]))
                   /\ pc'[p] = "idle" /\ res'[p].status = "ok"
                   /\ res'[p].state = canvas'
                   /\ events' = events]_vars

\* a reset given a width alone, after a pixel write that added a colour
C18_Witness ==
    \E o \in DOMAIN ops :
        /\ IsOp(o, "resetCanvas") /\ Succeeded(o) /\ ops[o].wrote = nWrites
        /\ ops[o].req.args.height = Undefined /\ ops[o].req.args.palette = Undefined
        /\ Get(canvas).meta.width = 3 /\ Get(canvas).meta.height = DefaultHeight
        /\ Len(PaletteOf(canvas)) = Len(DEFAULT_PALETTE) + 1
        /\ CellValues(Base64Bytes(Get(canvas).pixelsBase64)) = {0}
        /\ PixelSetsOf(o) = {} /\ ToolUsedOf(o) = {}

\* request p, a resetCanvas whose resolved dimensions are not both positive
\* integers, takes a step
InvalidResetStep(p) ==
    /\ req[p].op = "resetCanvas"
    /\ pc[p] \in {"get", "init"} /\ pc'[p] # pc[p]
    /\ ~ValidDimensions(req[p].args, Seen(p))

(***************************************************************************)
(* C19.  As stated: a resetCanvas with an invalid resolved width or height *)
(* leaves the value of the canvas key and the log exactly as they were,    *)
(* also when the key is absent.                                            *)
(***************************************************************************)
C19_Original ==
    [][\A p \in Procs : InvalidResetStep(p) => (canvas' = canvas /\ events' = events)]_vars

(***************************************************************************)
(* C19, amended.  A resetCanvas with an invalid resolved width or height   *)
(* fails with the invalid-dimensions error and appends nothing to the log; *)
(* it writes nothing to the canvas key except, when its read found the key *)
(* absent, the default state that getCanvas stores.                        *)
(***************************************************************************)
C19_Amended ==
    [][\A p \in Procs :
          InvalidResetStep(p) =>
              /\ events' = events
              /\ \/ canvas' = canvas
                 \/ pc[p] = "init" /\ canvas' = Some(InitialState)
              /\ \/ pc'[p] = "init" /\ pc[p] = "get" /\ canvas = Undefined
                 \/ /\ pc'[p] = "idle" /\ res'[p].status = "error"
                    /\ res'[p].error = ErrDimensions]_vars

InvalidDimensionsFailure(o) ==
    IsOp(o, "resetCanvas") /\ FailedValidation(o) /\ ops[o].error = ErrDimensions

\* one such reset found the key absent and stored the default state, a later
\* one read that state and left it as it was
C19_Witness ==
    \E a, b \in DOMAIN ops :
        /\ InvalidDimensionsFailure(a) /\ ops[a].calls = 2
        /\ InvalidDimensionsFailure(b) /\ ops[b].calls = 1
        /\ IsDefined(ops[b].req.args.width) /\ ~IsInteger(Get(ops[b].req.args.width))
        /\ ops[b].snap = canvas /\ nWrites = 1
        /\ events = <<>>

\* a successful setPixel whose colour the palette it read already had
WroteKnownColour(o) ==
    /\ IsOp(o, "setPixel") /\ Succeeded(o)
    /\ HasColour(PaletteOf(ops[o].snap), ops[o].req.args.color)

\* the palette index setPixel resolves for its colour in the palette it read
KnownIndex(o) ==
    findIndex(PaletteOf(ops[o].snap), normalizeColorString(ops[o].req.args.color.chars))

\* what the store holds right after the write of o made over its own snapshot:
\* the palette o read, and the entry's index in o's cell
KeptPalette(o) ==
    (WroteOverItsSnapshot(o) /\ ops[o].wrote = nWrites) =>
        /\ PaletteOf(canvas) = PaletteOf(ops[o].snap)
        /\ PixelAt(Get(canvas), IntOf(ops[o].req.args.x), IntOf(ops[o].req.args.y))
             = KnownIndex(o)

(***************************************************************************)
(* C20.  setPixel with a colour whose normalized form is that of a palette *)
(* entry leaves the palette unchanged, writes the entry's index into the   *)
(* grid and appends exactly one pixel_set event: its color the normalized  *)
(* input colour, its colorIndex the entry's index, its source the caller's *)
(* or "system".                                                            *)
(***************************************************************************)
C20_KnownColourEvent ==
    \A o \in DOMAIN ops :
        WroteKnownColour(o) =>
            /\ KeptPalette(o)
            /\ Cardinality(PixelSetsOf(o)) = 1
            /\ \A i \in PixelSetsOf(o) :
                  /\ events[i].val.color = normalizeColorString(ops[o].req.args.color.chars)
                  /\ events[i].val.colorIndex = KnownIndex(o)
                  /\ events[i].val.source = SourceOr(ops[o].req.args.source)

\* a setPixel with integer coordinates inside the grid it read, a non-blank
\* colour that the palette it read does not have, and room in that palette
AddsColour(o) ==
    /\ IsOp(o, "setPixel") /\ IsDefined(ops[o].snap)
    /\ ~BadUpdate(ops[o].req.args, Get(ops[o].snap))
    /\ ~HasColour(PaletteOf(ops[o].snap), ops[o].req.args.color)
    /\ Len(PaletteOf(ops[o].snap)) < MaxPalette

\* the cells of `new` are those of `old` but for cell k, which holds v
OnlyCellChanged(old, new, k, v) ==
    /\ new.length = old.length
    /\ At(new, k) = v
    /\ \A j \in (DOMAIN old.nz \cup DOMAIN new.nz) \ {k} : At(new, j) = At(old, j)

(***************************************************************************)
(* C21.  setPixel with a colour that a palette of n < 256 entries does not *)
(* have does not fail, and stores the palette it read with the normalized  *)
(* colour appended as entry n, and the grid it read with n in the written  *)
(* cell and every other cell unchanged.                                    *)
(***************************************************************************)
C21_NewColour ==
    \A o \in DOMAIN ops :
        AddsColour(o) =>
            /\ ~Failed(o)
            /\ Succeeded(o) => ops[o].wrote > 0
            /\ (ops[o].wrote > 0 /\ ops[o].wrote = nWrites) =>
                  /\ PaletteOf(canvas)
                       = Append(PaletteOf(ops[o].snap),
                                normalizeColorString(ops[o].req.args.color.chars))
                  /\ Get(canvas).meta.width = Get(ops[o].snap).meta.width
                  /\ Get(canvas).meta.height = Get(ops[o].snap).meta.height
                  /\ OnlyCellChanged(Base64Bytes(Get(ops[o].snap).pixelsBase64),
                                     Base64Bytes(Get(canvas).pixelsBase64),
                                     IntOf(indexFor(ops[o].req.args.x, ops[o].req.args.y,
                                                    Get(ops[o].snap).meta.width)),
                                     Len(PaletteOf(ops[o].snap)))

\* "#def" written at (2, 1) of the default canvas: entry 16 of 17, cell 130
C21_Witness ==
    \E o \in DOMAIN ops :
        /\ AddsColour(o) /\ Succeeded(o) /\ ops[o].wrote = nWrites
        /\ ops[o].snap = Some(InitialState)
        /\ Len(PaletteOf(canvas)) = 17
        /\ PaletteOf(canvas)[17] = <<"#","d","d","e","e","f","f">>
        /\ Base64Bytes(Get(canvas).pixelsBase64).nz = (66 :> 16)

\* the position of log entry i among the pixel_set events of operation o
RankOf(o, i) == Cardinality({j \in PixelSetsOf(o) : j <= i})

\* update k is the last one of the batch for its coordinate
LastForCell(updates, k) ==
    \A j \in DOMAIN updates :
        (j > k) => ~(updates[j].x = updates[k].x /\ updates[j].y = updates[k].y)

(***************************************************************************)
(* C22.  A setPixels batch that reached its store write: the k-th          *)
(* pixel_set event it appends is the one of its k-th update (coordinates   *)
(* and colour), a successful batch has appended exactly one event per      *)
(* update, and the grid it stored holds, for each coordinate, the index of *)
(* the colour of the last update for that coordinate.                      *)
(***************************************************************************)
C22_BatchInOrder ==
    \A o \in DOMAIN ops :
        (IsOp(o, "setPixels") /\ ops[o].wrote > 0) =>
            LET updates == ops[o].req.args.updates IN
            /\ \A i \in PixelSetsOf(o) :
                  /\ RankOf(o, i) <= Len(updates)
                  /\ events[i].val.x = updates[RankOf(o, i)].x
                  /\ events[i].val.y = updates[RankOf(o, i)].y
                  /\ normalizeColorString(events[i].val.color)
                       = normalizeColorString(updates[RankOf(o, i)].color.chars)
            /\ Succeeded(o) => Cardinality(PixelSetsOf(o)) = Len(updates)
            /\ (ops[o].wrote = nWrites) =>
                  \A k \in DOMAIN updates :
                      LastForCell(updates, k) =>
                          PixelAt(Get(canvas), IntOf(updates[k].x), IntOf(updates[k].y))
                            = findIndex(PaletteOf(canvas),
                                        normalizeColorString(updates[k].color.chars))

\* the batch [(1,0," #AbC "), (1,0,"#def")] on the default canvas: two events,
\* and cell (1,0) holds 17, the index of "#ddeeff"
C22_Witness ==
    \E o \in DOMAIN ops :
        /\ IsOp(o, "setPixels") /\ Succeeded(o) /\ ops[o].wrote = nWrites
        /\ Len(ops[o].req.args.updates) = 2
        /\ ~LastForCell(ops[o].req.args.updates, 1)
        /\ Cardinality(PixelSetsOf(o)) = 2
        /\ PixelAt(Get(canvas), 1, 0) = 17
        /\ PaletteOf(canvas)[18] = <<"#","d","d","e","e","f","f">>

\* the palette as it stands in the application loop after the first k updates
RECURSIVE PaletteAfter(_, _, _)
PaletteAfter(updates, k, palette) ==
    IF k = 0 THEN palette
    ELSE IF findIndex(PaletteAfter(updates, k - 1, palette),
                      normalizeColorString(updates[k].color.chars)) # -1
    THEN PaletteAfter(updates, k - 1, palette)
    ELSE Append(PaletteAfter(updates, k - 1, palette),
                normalizeColorString(updates[k].color.chars))

\* the index the application loop assigned to the cell of update k
IndexApplied(updates, k, palette) ==
    findIndex(PaletteAfter(updates, k, palette), normalizeColorString(updates[k].color.chars))

(***************************************************************************)
(* C23.  Every pixel_set event of a setPixels batch that reached its store *)
(* write carries a colorIndex that is an index into the palette the batch  *)
(* persisted; the entry there normalizes to the update's colour; and the   *)
(* colorIndex is the index the application loop assigned to the cell of    *)
(* that update, which the stored grid holds (as a byte) unless a later     *)
(* update of the batch wrote the same cell.                                *)
(***************************************************************************)
C23_EventIndexValid ==
    \A o \in DOMAIN ops :
        (IsOp(o, "setPixels") /\ ops[o].wrote > 0) =>
            LET updates == ops[o].req.args.updates
                persisted == PaletteAfter(updates, Len(updates), PaletteOf(ops[o].snap))
            IN
            /\ (ops[o].wrote = nWrites) => PaletteOf(canvas) = persisted
            /\ \A i \in PixelSetsOf(o) :
                  /\ events[i].val.colorIndex \in 0..(Len(persisted) - 1)
                  /\ normalizeColorString(persisted[events[i].val.colorIndex + 1])
                       = normalizeColorString(updates[RankOf(o, i)].color.chars)
                  /\ events[i].val.colorIndex
                       = IndexApplied(updates, RankOf(o, i), PaletteOf(ops[o].snap))
                  /\ (ops[o].wrote = nWrites /\ LastForCell(updates, RankOf(o, i))) =>
                        PixelAt(Get(canvas), IntOf(events[i].val.x), IntOf(events[i].val.y))
                          = events[i].val.colorIndex % ByteRange

\* the batch [(0,0," #AbC "), (1,2,"#FFF")] on an empty palette: the second
\* event carries index 1, which the loop assigned when the palette had grown
C23_Witness ==
    \E o \in DOMAIN ops :
        /\ IsOp(o, "setPixels") /\ Succeeded(o) /\ ops[o].wrote = nWrites
        /\ PaletteOf(ops[o].snap) = <<>>
        /\ Len(PaletteOf(canvas)) = 2
        /\ \E i \in PixelSetsOf(o) :
              /\ RankOf(o, i) = 2
              /\ events[i].val.colorIndex = 1
              /\ PixelAt(Get(canvas), 1, 2) = 1

(***************************************************************************)
(* C24.  logToolUsed never fails its caller: no tool call ends with the    *)
(* failure of the append that logToolUsed awaits, whatever the backend     *)
(* does with that append.                                                  *)
(***************************************************************************)
C24_LogNeverFails ==
    \A o \in DOMAIN ops :
        ops[o].req.via = "mcp" => ~(Failed(o) /\ ops[o].failedAt = "log")

(***************************************************************************)
(* ensureColorInPalette applied on its own, twice: to a palette and a      *)
(* colour, then to the palette it returned and the same colour.            *)
(***************************************************************************)
MixedPalette == <<<<"#","A","B","C">>, <<" ","#","F","F","F"," ">>>>
TwicePalette == <<<<"#","f","f","f">>, <<"#","F","F","F","F","F","F">>>>
AlmostFullPalette == SubSeq(FullPalette, 1, MaxPalette - 1)

PaletteSamples ==
    {DEFAULT_PALETTE, <<>>, OnePalette, MixedPalette, TwicePalette,
     AlmostFullPalette, FullPalette}

ColourSamples ==
    {ColWhiteShort.chars, ColNewPadded.chars, ColNewShort.chars, ColBlank.chars,
     ColFirst.chars, ColLast.chars,
     <<"#","a","b","c">>, <<"#","F","F","F","F","F","F">>, <<"r","e","d"," ">>, <<"#","A","A","B","B","C","C">>}

EnsureInit ==
    /\ Started
    /\ \E palette \in PaletteSamples, color \in ColourSamples :
          pure = [fn |-> "ensureColorInPalette",
                  args |-> [palette |-> palette, color |-> color],
                  returned |-> <<>>]

\* the first application
EnsureOnce ==
    /\ pure.fn = "ensureColorInPalette" /\ pure.returned = <<>>
    /\ pure' = [pure EXCEPT !.returned =
                    <<ensureColorInPalette(pure.args.palette, pure.args.color)>>]
    /\ UNCHANGED system

\* the second application, to the palette the first returned; none if it threw
EnsureAgain ==
    /\ pure.fn = "ensureColorInPalette" /\ Len(pure.returned) = 1
    /\ pure.returned[1].ok
    /\ pure' = [pure EXCEPT !.returned =
                    Append(@, ensureColorInPalette(pure.returned[1].updatedPalette,
                                                   pure.args.color))]
    /\ UNCHANGED system

EnsureNext == EnsureOnce \/ EnsureAgain

EnsureSpec == EnsureInit /\ [][EnsureNext]_vars

\* no two entries of the palette are equal under normalization
NoTwoEqual(palette) ==
    Cardinality({normalizeColorString(palette[i]) : i \in DOMAIN palette}) = Len(palette)

(***************************************************************************)
(* C25.  ensureColorInPalette is idempotent: on a palette with no two      *)
(* entries equal under normalization, a second application with the same   *)
(* colour to the returned palette returns the same index and the same      *)
(* palette, which still has no two entries equal under normalization.      *)
(***************************************************************************)
C25_EnsureIdempotent ==
    (pure.fn = "ensureColorInPalette" /\ NoTwoEqual(pure.args.palette)) =>
        /\ (Len(pure.returned) >= 1 /\ pure.returned[1].ok) =>
              NoTwoEqual(pure.returned[1].updatedPalette)
        /\ Len(pure.returned) = 2 =>
              /\ pure.returned[2].ok
              /\ pure.returned[2].colorIndex = pure.returned[1].colorIndex
              /\ pure.returned[2].updatedPalette = pure.returned[1].updatedPalette
              /\ NoTwoEqual(pure.returned[2].updatedPalette)

\* " #AbC " on the default palette: appended as entry 16, found there again
C25_Witness ==
    /\ pure.fn = "ensureColorInPalette" /\ Len(pure.returned) = 2
    /\ pure.args.palette = DEFAULT_PALETTE
    /\ pure.args.color = ColNewPadded.chars
    /\ pure.returned[1].colorIndex = 16
    /\ Len(pure.returned[1].updatedPalette) = 17
    /\ pure.returned[2].colorIndex = 16

(***************************************************************************)
(* encodePixelsToBase64 and decodePixelsFromBase64 applied on their own: a *)
(* grid is encoded, and the text is decoded with an expected length.       *)
(***************************************************************************)
MaxGrid == 4         \* cells of a grid given to encodePixelsToBase64

\* cell values: both ends of the byte range, and values with high and low bits
ByteSamples == {0, 1, 130, 255}

Grids ==
    UNION {{[length |-> n, nz |-> NonZero([i \in 0..(n - 1) |-> f[i]])] :
               f \in [0..(n - 1) -> ByteSamples]} : n \in 0..MaxGrid}

CodecInit ==
    /\ Started
    /\ \E pixels \in Grids, expectedLength \in 0..(MaxGrid + 1) :
          pure = [fn |-> "decodePixelsFromBase64",
                  args |-> [pixels |-> pixels, expectedLength |-> expectedLength],
                  returned |-> <<>>]

Encode ==
    /\ pure.fn = "decodePixelsFromBase64" /\ pure.returned = <<>>
    /\ pure' = [pure EXCEPT !.returned = <<encodePixelsToBase64(pure.args.pixels)>>]
    /\ UNCHANGED system

Decode ==
    /\ pure.fn = "decodePixelsFromBase64" /\ Len(pure.returned) = 1
    /\ pure' = [pure EXCEPT !.returned =
                    Append(@, decodePixelsFromBase64(pure.returned[1],
                                                     pure.args.expectedLength))]
    /\ UNCHANGED system

CodecNext == Encode \/ Decode

CodecSpec == CodecInit /\ [][CodecNext]_vars

(***************************************************************************)
(* C26.  Decoding the encoding of a grid of n bytes with expected length n *)
(* returns the grid; decoding it with another expected length fails with   *)
(* the length-mismatch error.                                              *)
(***************************************************************************)
C26_RoundTrip ==
    (pure.fn = "decodePixelsFromBase64" /\ Len(pure.returned) = 2) =>
        IF pure.args.expectedLength = pure.args.pixels.length
        THEN /\ pure.returned[2].ok
             /\ pure.returned[2].pixels = pure.args.pixels
        ELSE /\ ~pure.returned[2].ok
             /\ pure.returned[2].error = ErrLength

\* the four bytes 255, 0, 130, 1 come back from an encoding of 8 characters
C26_Witness ==
    /\ pure.fn = "decodePixelsFromBase64" /\ Len(pure.returned) = 2
    /\ pure.args.pixels = [length |-> 4, nz |-> (0 :> 255) @@ (2 :> 130) @@ (3 :> 1)]
    /\ pure.args.expectedLength = 4
    /\ pure.returned[1].length = 8 /\ pure.returned[1].pad = 2
    /\ pure.returned[2].ok
    /\ At(pure.returned[2].pixels, 0) = 255

\* request p, made through an HTTP route, takes a step
HttpStep(p) == req[p].via = "http" /\ pc[p] # "idle" /\ pc'[p] # pc[p]

(***************************************************************************)
(* C27.  The HTTP surface is read-only: no step of GET /api/canvas or of   *)
(* GET /api/canvas/events appends to the event log, and none changes a     *)
(* canvas state that is stored; the only write is the default              *)
(* initialization of an absent canvas key.                                 *)
(***************************************************************************)
C27_HttpReadOnly ==
    [][\A p \in Procs :
          HttpStep(p) =>
              /\ events' = events
              /\ canvas' = canvas \/ canvas = Undefined]_vars

\* the last operation of request p is a getCanvasEvents with an integer
\* limit N > 0 that returned
ReturnedWindow(p) ==
    /\ res[p].status = "ok" /\ res[p].op > 0
    /\ IsOp(res[p].op, "getCanvasEvents")
    /\ HasLimit(ops[res[p].op].req)
    /\ IsInteger(Get(ops[res[p].op].req.args.limit))

LimitOf(o) == IntOf(Get(ops[o].req.args.limit))

\* the last min(n, length) values of the first `length` log entries
WindowAt(length, n) == LastN(SubSeq(LogValues, 1, length), Min({n, length}))

(***************************************************************************)
(* C28.  As stated: getCanvasEvents(limit=N) returns the N most recent     *)
(* entries of the log as it stands when the range read executes, also when *)
(* events were appended between its length read and its range read.        *)
(***************************************************************************)
C28_Original ==
    \A p \in Procs :
        ReturnedWindow(p) =>
            res[p].events = WindowAt(ops[res[p].op].rangeAt, LimitOf(res[p].op))

(***************************************************************************)
(* C28, amended.  getCanvasEvents(limit=N) whose length read returned      *)
(* L > 0 returns the last min(N, L) entries of the first L entries of the  *)
(* log: entries appended between the length read and the range read are    *)
(* not returned.  When the length read returned 0, the range read runs     *)
(* from 0 to -1 and returns the whole log as it stands then.               *)
(***************************************************************************)
C28_Amended ==
    \A p \in Procs :
        ReturnedWindow(p) =>
            /\ ops[res[p].op].lenAt <= ops[res[p].op].rangeAt
            /\ res[p].events
                 = IF ops[res[p].op].lenAt > 0
                   THEN WindowAt(ops[res[p].op].lenAt, LimitOf(res[p].op))
                   ELSE SubSeq(LogValues, 1, ops[res[p].op].rangeAt)

\* limit 2, and the log grew from one entry to three between the two
\* reads: the entry returned is the first one, not the two newest
C28_Witness ==
    \E p \in Procs :
        /\ ReturnedWindow(p)
        /\ LimitOf(res[p].op) = 2
        /\ ops[res[p].op].lenAt = 1
        /\ ops[res[p].op].rangeAt = 3
        /\ res[p].events = <<LogValues[1]>>

(***************************************************************************)
(* getCanvasEvents on a log that other writers have filled: the list holds *)
(* entries in every stored form when the requests start.                   *)
(***************************************************************************)
MaxLog == 2          \* entries in the log when the requests start

StoredPixelSet == PixelSetEvent(Num(0), Num(0), DEFAULT_PALETTE[1], 0, "api")
StoredToolUsed == ToolUsedEvent("get_canvas", NoArgs)

RawSamples ==
    {[enc |-> 0, val |-> StoredPixelSet],               \* an object
     [enc |-> 1, val |-> StoredToolUsed],               \* JSON text
     [enc |-> 2, val |-> StoredPixelSet],               \* JSON text of JSON text
     [enc |-> 3, val |-> StoredToolUsed],               \* one layer more
     [enc |-> 1, val |-> [type |-> "not json"]],        \* text that is no JSON
     [enc |-> 2, val |-> [type |-> "not json"]],        \* JSON text of such a text
     [enc |-> 1, val |-> [type |-> "null"]],            \* the JSON text null
     [enc |-> 0, val |-> [type |-> "canvas_reset"]]}    \* an object of another type

StoredLogs == UNION {[1..n -> RawSamples] : n \in 0..MaxLog}

StoredInit ==
    /\ canvas = Undefined
    /\ events \in StoredLogs
    /\ pc = [p \in Procs |-> "idle"]
    /\ req = [p \in Procs |-> NoRequest]
    /\ oid = [p \in Procs |-> 0]
    /\ cur = [p \in Procs |-> Undefined]
    /\ upd = [p \in Procs |-> Undefined]
    /\ pend = [p \in Procs |-> <<>>]
    /\ len = [p \in Procs |-> 0]
    /\ res = [p \in Procs |-> NoResult]
    /\ ops = <<>>
    /\ origin = [i \in DOMAIN events |-> 0]
    /\ nWrites = 0
    /\ lineage = {}
    /\ pure = NotApplied

StoredRequests ==
    {GetCanvasEventsCall("http", Undefined),
     GetCanvasEventsCall("http", Some(Num(2))),
     GetCanvasEventsCall("mcp", Some(Num(1)))}

StoredNext ==
    \E p \in Procs :
        \/ \E r \in StoredRequests : Call(p, r)
        \/ LogToolUsed(p)
        \/ RedisLlen(p)
        \/ RedisLrange(p)

StoredSpec == StoredInit /\ [][StoredNext]_vars

\* a stored entry that is an event under at most two layers of JSON text
Recognised(raw) ==
    /\ raw.enc <= 2
    /\ raw.val.type \in {"pixel_set", "tool_used"}

\* the events of the recognised entries of a window, in its order
RecognisedOf(window) ==
    [i \in DOMAIN SelectSeq(window, Recognised) |-> SelectSeq(window, Recognised)[i].val]

\* the raw entries getCanvasEvents o selected: the last N of the log as its
\* length read found it, or the whole log as its range read found it (no
\* limit, or a length read of 0: the range read then runs from 0 to -1)
RawWindow(o) ==
    IF HasLimit(ops[o].req) /\ ops[o].lenAt > 0
    THEN LastN(SubSeq(events, 1, ops[o].lenAt), Min({LimitOf(o), ops[o].lenAt}))
    ELSE SubSeq(events, 1, ops[o].rangeAt)

(***************************************************************************)
(* C29.  getCanvasEvents does not fail on a log that mixes objects, JSON   *)
(* texts, doubly encoded JSON texts and malformed entries: it returns the  *)
(* events of the recognised entries of the raw window it selected, in log  *)
(* order, and nothing for the others.                                      *)
(***************************************************************************)
C29_MalformedDropped ==
    \A p \in Procs :
        (res[p].op > 0 /\ IsOp(res[p].op, "getCanvasEvents") /\ res[p].status # "none") =>
            /\ res[p].status = "ok"
            /\ res[p].events = RecognisedOf(RawWindow(res[p].op))

\* limit 2 on a log of a text that is no JSON and a doubly encoded
\* pixel_set: one event is returned
C29_Witness ==
    \E p \in Procs :
        /\ res[p].op > 0 /\ res[p].status = "ok"
        /\ HasLimit(ops[res[p].op].req) /\ LimitOf(res[p].op) = 2
        /\ ops[res[p].op].lenAt = 2
        /\ events[1] = [enc |-> 1, val |-> [type |-> "not json"]]
        /\ events[2] = [enc |-> 2, val |-> StoredPixelSet]
        /\ res[p].events = <<StoredPixelSet>>

(***************************************************************************)
(* C30.  A setPixel or setPixels whose append rejects after its store      *)
(* write reports the failure; the store keeps the grid and palette the     *)
(* call wrote; the log holds none of the events of a setPixel, and of a    *)
(* setPixels the events of the updates before the one whose append         *)
(* rejected, in input order; the call appends nothing afterwards.          *)
(***************************************************************************)
C30_NotTransactional ==
    \A o \in DOMAIN ops :
        (AppendRejected(o) /\ (IsOp(o, "setPixel") \/ IsOp(o, "setPixels"))) =>
            /\ ~InFlight(o)
            /\ ops[o].error = ErrBackend
            /\ \A p \in Procs : res[p].op = o => res[p].status = "error"
            /\ ops[o].wrote > 0
            /\ Cardinality(PixelSetsOf(o)) < PixelSetsDue(o)
            /\ IsOp(o, "setPixels") =>
                  \A i \in PixelSetsOf(o) :
                      /\ events[i].val.x = ops[o].req.args.updates[RankOf(o, i)].x
                      /\ events[i].val.y = ops[o].req.args.updates[RankOf(o, i)].y
            /\ (ops[o].wrote = nWrites) =>
                  canvas = BodyAfterGetCanvas(ops[o].req.args, ops[o].req.op,
                                              Get(ops[o].snap)).updated

\* the second append of a batch of two rejected: the call failed, the log
\* holds its first event, the store holds both pixels and both new colours
C30_Witness ==
    \E o \in DOMAIN ops :
        /\ IsOp(o, "setPixels") /\ AppendRejected(o)
        /\ ops[o].wrote = nWrites
        /\ Cardinality(PixelSetsOf(o)) = 1
        /\ Len(PaletteOf(canvas)) = 18
        /\ PixelAt(Get(canvas), 1, 0) = 16
        /\ PixelAt(Get(canvas), 0, 1) = 17

\* request p, a setPixels, takes a step that writes the canvas key
SetPixelsWrites(p) ==
    /\ req[p].op = "setPixels" /\ pc[p] # "idle" /\ pc'[p] # pc[p]
    /\ nWrites' # nWrites

\* the grid cells that the updates of a batch address on a grid of that width
CellsOf(updates, width) ==
    {IntOf(indexFor(updates[k].x, updates[k].y, width)) : k \in DOMAIN updates}

\* `new` is `old` with every update of the batch applied: the palette grown
\* by the batch's new colours, each addressed cell holding the index of the
\* last update for it, every other cell as it was
BatchApplied(updates, old, new) ==
    /\ new.meta.width = old.meta.width /\ new.meta.height = old.meta.height
    /\ new.meta.palette = PaletteAfter(updates, Len(updates), old.meta.palette)
    /\ \A k \in DOMAIN updates :
          LastForCell(updates, k) =>
              PixelAt(new, IntOf(updates[k].x), IntOf(updates[k].y))
                = IndexApplied(updates, k, old.meta.palette) % ByteRange
    /\ \A j \in (DOMAIN Base64Bytes(old.pixelsBase64).nz
                   \cup DOMAIN Base64Bytes(new.pixelsBase64).nz)
                 \ CellsOf(updates, old.meta.width) :
          At(Base64Bytes(new.pixelsBase64), j) = At(Base64Bytes(old.pixelsBase64), j)

\* the one write of the whole batch: the step from "set", not made before
WritesWholeBatch(p) ==
    /\ pc[p] = "set" /\ ops[oid[p]].wrote = 0
    /\ IsDefined(canvas')
    /\ BatchApplied(req[p].args.updates, Get(cur[p]), Get(canvas'))

(***************************************************************************)
(* C31.  As stated: the only write a setPixels call makes to the canvas    *)
(* key is the one of the state with every update of the batch applied.     *)
(***************************************************************************)
C31_Original ==
    [][\A p \in Procs : SetPixelsWrites(p) => WritesWholeBatch(p)]_vars

(***************************************************************************)
(* C31, amended.  A setPixels call writes its updates to the canvas key in *)
(* one write, of the state it read with every update of the batch applied; *)
(* the only other write it makes is that of the default state, before,     *)
(* when its getCanvas found the key absent.  No stored grid holds some but *)
(* not all of the cells of the batch by the call's own writing.            *)
(***************************************************************************)
C31_Amended ==
    [][\A p \in Procs :
          SetPixelsWrites(p) =>
              \/ WritesWholeBatch(p)
              \/ /\ pc[p] = "init" /\ ops[oid[p]].wrote = 0
                 /\ canvas' = Some(InitialState)]_vars

\* the first call of all is a batch of two new colours: it wrote the default
\* state, then the state with both cells
C31_Witness ==
    /\ Len(ops) >= 1 /\ IsOp(1, "setPixels") /\ Succeeded(1)
    /\ ops[1].readAt = 1 /\ ops[1].wrote = 2 /\ nWrites = 2
    /\ PixelAt(Get(canvas), 1, 0) = 16
    /\ PixelAt(Get(canvas), 0, 1) = 17

(***************************************************************************)
(* Concurrent setPixel calls on one coordinate, with two colours and no    *)
(* resetCanvas.                                                            *)
(***************************************************************************)
SameCellRequests ==
    {SetPixelCall("lib", Num(0), Num(0), ColNewPadded, Undefined),
     SetPixelCall("lib", Num(0), Num(0), ColNewShort, Some("api"))}

SameCellNext ==
    \E p \in Procs :
        \/ \E r \in SameCellRequests : Call(p, r)
        \/ RedisGet(p)
        \/ RedisSetInitial(p)
        \/ RedisSetUpdated(p)
        \/ AppendPixelSet(p)

SameCellSpec == Init /\ [][SameCellNext]_vars

\* log entry i is the last pixel_set event of the log for its coordinate
LastEventForCell(i) ==
    /\ IsPixelSet(i)
    /\ \A j \in DOMAIN events :
          (j > i /\ IsPixelSet(j)) =>
              ~(events[j].val.x = events[i].val.x /\ events[j].val.y = events[i].val.y)

(***************************************************************************)
(* C32.  Of two pixel_set events of different setPixel calls for the same  *)
(* coordinate, the later one in the log belongs to the call whose store    *)
(* write came later; so, when no call is in flight, the last event of the  *)
(* log for a coordinate names the colour that the stored grid holds there. *)
(***************************************************************************)
C32_LogOrderIsWriteOrder ==
    /\ \A i, j \in DOMAIN events :
          (/\ i < j /\ IsPixelSet(i) /\ IsPixelSet(j)
           /\ origin[i] # origin[j]
           /\ events[i].val.x = events[j].val.x /\ events[i].val.y = events[j].val.y)
              => ops[origin[i]].wrote < ops[origin[j]].wrote
    /\ Quiescent =>
          \A i \in DOMAIN events :
              LastEventForCell(i) =>
                  CellColour(Get(canvas), IntOf(events[i].val.x), IntOf(events[i].val.y))
                    = Some(events[i].val.color)

\* the updates of a pixel write: those of a batch, or the one of a setPixel
UpdatesOf(r) ==
    IF r.op = "setPixels" THEN r.args.updates
    ELSE <<Update(r.args.x, r.args.y, r.args.color)>>

\* request p, a pixel write, makes its store write while the key holds the
\* state of a resetCanvas that wrote after p had read the canvas
WritesOverReset(p) ==
    /\ req[p].op \in {"setPixel", "setPixels"}
    /\ pc[p] = "set" /\ pc'[p] # "set"
    /\ \E r \in DOMAIN ops :
          /\ IsOp(r, "resetCanvas")
          /\ ops[r].wrote = nWrites
          /\ ops[oid[p]].readAt < ops[r].wrote

(***************************************************************************)
(* C33.  As stated: a pixel write that read the canvas before the write of *)
(* a resetCanvas does not store the width and height from before the reset *)
(* over the state of the reset.                                            *)
(***************************************************************************)
C33_Original ==
    [][\A p \in Procs :
          WritesOverReset(p) =>
              /\ Get(canvas').meta.width = Get(canvas).meta.width
              /\ Get(canvas').meta.height = Get(canvas).meta.height]_vars

(***************************************************************************)
(* C33, amended.  A pixel write that read the canvas before the write of a *)
(* resetCanvas and writes after it stores the state it read (width,        *)
(* height, palette and grid from before the reset) with its own updates    *)
(* applied, in place of the state of the reset.                            *)
(***************************************************************************)
C33_Amended ==
    [][\A p \in Procs :
          WritesOverReset(p) =>
              /\ IsDefined(canvas')
              /\ BatchApplied(UpdatesOf(req[p]), Get(cur[p]), Get(canvas'))]_vars

\* resetCanvas(width 3) wrote a 3x64 canvas; a set_pixel(2, 1, "#def") that
\* had read the default canvas then wrote: the canvas is 64 wide again
C33_Witness ==
    \E r, o \in DOMAIN ops :
        /\ IsOp(r, "resetCanvas") /\ Succeeded(r)
        /\ ops[r].req.args.width = Some(Num(3))
        /\ IsOp(o, "setPixel")
        /\ ops[o].readAt < ops[r].wrote
        /\ ops[o].wrote = ops[r].wrote + 1
        /\ ops[o].wrote = nWrites
        /\ Get(canvas).meta.width = DefaultWidth
        /\ PixelAt(Get(canvas), 2, 1) = 16

(***************************************************************************)
(* The bodies of setPixel and of setPixels applied to the same stored      *)
(* state: setPixel(x, y, color, source), and setPixels with the one update *)
(* {x, y, color} and the same source.                                      *)
(***************************************************************************)
BlankCanvas(width, height, palette) ==
    CanvasState(width, height, palette,
                encodePixelsToBase64(createEmptyPixels(width, height, 0)))

\* the default canvas, the default canvas with a pixel of a 17th colour, and
\* the canvases that resetCanvas builds on palettes of 256 and 257 entries
StateSamples ==
    {InitialState,
     Get(setPixelBody([NoArgs EXCEPT !.x = Num(1), !.y = Num(1), !.color = ColNewPadded],
                      InitialState).updated),
     BlankCanvas(2, 2, FullPalette),
     BlankCanvas(2, 2, OverPalette)}

CoordSamples == {Num(-1), Num(0), Half(0), Num(1), Num(2), Num(64)}

ColourArgSamples ==
    {ColWhiteShort, ColNewPadded, ColNewShort, ColBlank, ColLast, JSString(<<"x">>), JSUndefined}

SourceSamples == {Undefined, Some("api")}

EquivInit ==
    /\ Started
    /\ \E current \in StateSamples, x \in CoordSamples, y \in CoordSamples,
          color \in ColourArgSamples, source \in SourceSamples :
          pure = [fn |-> "setPixel",
                  args |-> [current |-> current, x |-> x, y |-> y,
                            color |-> color, source |-> source],
                  returned |-> <<>>]

SetPixelAlone ==
    /\ pure.fn = "setPixel" /\ pure.returned = <<>>
    /\ pure' = [pure EXCEPT !.returned =
                    <<setPixelBody([NoArgs EXCEPT !.x = pure.args.x, !.y = pure.args.y,
                                                  !.color = pure.args.color,
                                                  !.source = pure.args.source],
                                   pure.args.current)>>]
    /\ UNCHANGED system

SetPixelsOfOne ==
    /\ pure.fn = "setPixel" /\ Len(pure.returned) = 1
    /\ pure' = [pure EXCEPT !.returned =
                    Append(@, setPixelsBody(
                                  [NoArgs EXCEPT
                                      !.updates = <<Update(pure.args.x, pure.args.y,
                                                           pure.args.color)>>,
                                      !.source = pure.args.source],
                                  pure.args.current))]
    /\ UNCHANGED system

EquivNext == SetPixelAlone \/ SetPixelsOfOne

EquivSpec == EquivInit /\ [][EquivNext]_vars

(***************************************************************************)
(* C34.  For integer x and y, setPixels with the single update             *)
(* {x, y, color} and setPixel(x, y, color) with the same source, run on    *)
(* the same stored state, both fail or both succeed; when they succeed     *)
(* they store the same canvas state and append the same one event.         *)
(***************************************************************************)
C34_SingleUpdateIsSetPixel ==
    (/\ pure.fn = "setPixel" /\ Len(pure.returned) = 2
     /\ IsInteger(pure.args.x) /\ IsInteger(pure.args.y)) =>
        /\ pure.returned[1].ok = pure.returned[2].ok
        /\ pure.returned[1].ok =>
              /\ pure.returned[1].updated = pure.returned[2].updated
              /\ Len(pure.returned[2].events) = 1
              /\ pure.returned[1].events[1] = pure.returned[2].events[1]

\* "#FFF" at (1, 0) of the default canvas with source "api": both succeed
\* and append the event of index 0
C34_Witness ==
    /\ pure.fn = "setPixel" /\ Len(pure.returned) = 2
    /\ pure.args.current = InitialState
    /\ pure.args.x = Num(1) /\ pure.args.y = Num(0)
    /\ pure.args.color = ColWhiteShort /\ pure.args.source = Some("api")
    /\ pure.returned[1].ok /\ pure.returned[2].ok
    /\ pure.returned[2].events[1].colorIndex = 0
    /\ pure.returned[2].events[1].source = "api"

(***************************************************************************)
(* setPixel on a canvas that resetCanvas built with a palette argument of  *)
(* MaxPalette + 1 entries.                                                 *)
(***************************************************************************)
ColOver == JSString(<<"x">>)          \* entry 256 of OverPalette

OverflowRequests ==
    {ResetCanvasCall("lib", Some(Num(2)), Some(Num(2)), Some(OverPalette)),
     SetPixelCall("lib", Num(1), Num(0), ColOver, Undefined),
     SetPixelCall("lib", Num(1), Num(1), ColLast, Some("api")),
     GetCanvasCall("lib")}

OverflowNext ==
    \E p \in Procs :
        \/ \E r \in OverflowRequests : Call(p, r)
        \/ RedisGet(p)
        \/ RedisSetInitial(p)
        \/ RedisSetUpdated(p)
        \/ AppendPixelSet(p)

OverflowSpec == Init /\ [][OverflowNext]_vars

(***************************************************************************)
(* C35.  After a successful setPixel(x, y, color), while its write is the  *)
(* latest one, the grid cell at y*width+x holds the colorIndex that the    *)
(* call's pixel_set event reports, and the palette entry at that index is  *)
(* the colour: the index is not truncated modulo 256 in the grid.          *)
(***************************************************************************)
C35_IndexNotTruncated ==
    \A o \in DOMAIN ops :
        (IsOp(o, "setPixel") /\ Succeeded(o) /\ ops[o].wrote = nWrites) =>
            \A i \in PixelSetsOf(o) :
                /\ normalizeColorString(PaletteOf(canvas)[events[i].val.colorIndex + 1])
                     = normalizeColorString(ops[o].req.args.color.chars)
                /\ PixelAt(Get(canvas), IntOf(events[i].val.x), IntOf(events[i].val.y))
                     = events[i].val.colorIndex

(***************************************************************************)
(* GET /api/canvas/events with limit=0, limit=-1, limit=2 and no limit, on *)
(* a log that get_canvas tool calls fill.                                  *)
(***************************************************************************)
LimitRequests ==
    {GetCanvasEventsCall("http", Some(Num(0))),
     GetCanvasEventsCall("http", Some(Num(-1))),
     GetCanvasEventsCall("http", Some(Num(2))),
     GetCanvasEventsCall("http", Undefined),
     GetCanvasCall("mcp")}

LimitNext ==
    \E p \in Procs :
        \/ \E r \in LimitRequests : Call(p, r)
        \/ LogToolUsed(p)
        \/ RedisGet(p)
        \/ RedisSetInitial(p)
        \/ RedisLlen(p)
        \/ RedisLrange(p)

LimitSpec == Init /\ [][LimitNext]_vars

(***************************************************************************)
(* C36.  getCanvasEvents given a numeric limit returns at most that many   *)
(* events, none for a limit of 0 or below; it returns the entire log only  *)
(* when the limit is omitted.                                              *)
(***************************************************************************)
C36_AtMostLimit ==
    \A p \in Procs :
        (/\ res[p].op > 0 /\ res[p].status = "ok"
         /\ IsOp(res[p].op, "getCanvasEvents")
         /\ IsDefined(ops[res[p].op].req.args.limit)) =>
            Len(res[p].events) <= Max({0, IntOf(Get(ops[res[p].op].req.args.limit))})

====
